---- MODULE Spec2Model ----
(***************************************************************************)
(* Model of the LAZARUS agent backend (backend/lazarus_agent.py and        *)
(* backend/main.py).                                                       *)
(*                                                                         *)
(*   SpecBatch : LazarusEngine._group_files_into_batches applied to a      *)
(*               bounded file set, plan text and character budget.         *)
(*   SpecSplit : LazarusEngine._split_oversized_batches applied to a       *)
(*               bounded list of batches.                                  *)
(*   Spec      : one POST /api/resurrect request: LazarusHandler.do_POST   *)
(*               driving the generator process_resurrection_stream.        *)
(*   FairSpec  : Spec with weak fairness of the run's steps.               *)
(*                                                                         *)
(* A path is a sequence of tokens ("/" separates directories, a token      *)
(* starting with "." is an extension).  A file content is represented by   *)
(* its length, the only thing the batch planner reads of it.               *)
(***************************************************************************)
EXTENDS Integers, Sequences, FiniteSets, TLC

VARIABLES
    \* ---- batch planner (SpecBatch, SpecSplit)
    bpc,            \* "input" before the call, "done" after it
    files,          \* the scanned file list handed to the planner
    plan_lines,     \* the plan text, split into lines
    max_chars,      \* max_chars_per_batch
    in_batches,     \* the batch list handed to _split_oversized_batches
    batches,        \* the returned batch list
    \* ---- one resurrect request (Spec, FairSpec)
    pc,             \* position of the handler / generator
    plan,           \* the plan text returned by generate_modernization_plan
    fallback_mode,
    retry_count,
    sandbox_logs,
    run_files,      \* local `files` of process_resurrection_stream
    all_errors,
    stream,         \* NDJSON events written to the response, in order
    memory,         \* cross-run memory log (record_* calls)
    gen_plans,      \* plan argument of each generate_code_batched call
    outcomes,       \* per attempt: how it ended, the files it parsed and
                    \* the log execute_in_sandbox returned (if it ran)
    \* ---- one generation attempt (SpecGen); it also uses files,
    \* ---- plan_lines, max_chars and batches
    gpc,            \* position inside generate_code_batched / the attempt
    batch_idx,
    all_generated_files,
    previously_generated_summaries,
    calls,          \* the _call_gemini invocations of the attempt, in order
    sleeps,         \* the time.sleep durations of the attempt, in order
    gen_result,     \* how generate_code_batched ended
    attempt_end,    \* what the orchestrator did with that outcome
    \* ---- one _call_gemini call (SpecCall, FairSpecCall)
    cpc,            \* "call" on entry, "request" inside the loops, "done"
    api_key,        \* self.api_key is set
    model_arg,      \* the `model` argument
    all_models,
    model_idx,
    attempt,        \* index of the request to the current model
    last_request,   \* the last request sent and its response
    request_log,    \* per model that got a request, in order: how many
    call_result,    \* the returned text or the exception raised
    \* ---- one _parse_files_from_response call (SpecParse)
    ppc,            \* "input" before the call, "done" after it
    response,       \* the response text, as its sequence of file blocks
    parsed_files,   \* the returned list of {"filename", "content"}
    strategy,       \* the strategy that produced the result (0: none)
    \* ---- one _detect_entrypoint_and_runtime call (SpecEntry)
    epc,            \* "start" before the call, "done" after it
    gen_files,      \* the generated file list, [filename, content]
    entry_result,   \* the returned (entrypoint, runtime)
    \* ---- one _detect_errors call (SpecDetect)
    dpc,            \* "start" before the call, "done" after it
    detect_log,     \* the sandbox log, as the set of its fragments
    detection,      \* the returned (error_detected, error_type, ...)
    \* ---- execute_in_sandbox calls on one engine (SpecSandbox)
    spc,            \* position inside execute_in_sandbox, "idle" between calls
    sandbox,        \* self.sandbox: 0 for None, else the session's number
    sessions,       \* per created session: "open" or "closed"
    exec_calls,     \* number of execute_in_sandbox calls started
    close_attempts, \* the close() calls, in order: session and success
    sbx_runtime,    \* the runtime argument of the current call
    polls,          \* health-check polls done in the current call
    sbx_return,     \* the log the current call returned
    attempt_result, \* what the orchestrator did with that log
    e2b_available,  \* E2B_AVAILABLE and E2B_API_KEY, fixed at import
    health,         \* health check of the current call: "none", "polling",
                    \* "up" (backend_success) or "failed"
    \* ---- the file writes and the launch of one call (SpecDeploy)
    wpc,            \* "start" before the files are written, "done" after
    written_paths,  \* per generated file the sandbox path it was written to
    launch_path,    \* the path in the command that starts the entrypoint
    \* ---- requests served concurrently on the one engine (SpecConcurrent)
    tpc,            \* per request thread its position in execute_in_sandbox
    own             \* per request thread the session its current call created

batch_vars == <<bpc, files, plan_lines, max_chars, in_batches, batches>>
run_vars == <<pc, plan, fallback_mode, retry_count, sandbox_logs, run_files,
              all_errors, stream, memory, gen_plans, outcomes>>
gen_vars == <<gpc, batch_idx, all_generated_files,
              previously_generated_summaries, calls, sleeps, gen_result, attempt_end>>
call_vars == <<cpc, api_key, model_arg, all_models, model_idx, attempt,
               last_request, request_log, call_result>>
\* Variables of the specifications other than SpecBatch, SpecSplit and Spec
parse_vars == <<ppc, response, parsed_files, strategy>>
entry_vars == <<epc, gen_files, entry_result>>
detect_vars == <<dpc, detect_log, detection>>
sandbox_vars == <<spc, sandbox, sessions, exec_calls, close_attempts,
                  sbx_runtime, polls, sbx_return, attempt_result,
                  e2b_available, health, wpc, written_paths, launch_path,
          tpc, own>>
aux_vars == <<entry_vars, detect_vars, sandbox_vars>>
ext_vars == <<gen_vars, call_vars, parse_vars, aux_vars>>
vars == <<bpc, files, plan_lines, max_chars, in_batches, batches,
          pc, plan, fallback_mode, retry_count, sandbox_logs, run_files,
          all_errors, stream, memory, gen_plans, outcomes,
          gpc, batch_idx, all_generated_files,
          previously_generated_summaries, calls, sleeps, gen_result, attempt_end,
          cpc, api_key, model_arg, all_models, model_idx, attempt,
          last_request, request_log, call_result,
          ppc, response, parsed_files, strategy,
          epc, gen_files, entry_result, dpc, detect_log, detection,
          spc, sandbox, sessions, exec_calls, close_attempts,
          sbx_runtime, polls, sbx_return, attempt_result,
          e2b_available, health, wpc, written_paths, launch_path,
          tpc, own>>

(***************************************************************************)
(* Bounds                                                                  *)
(***************************************************************************)
MaxFiles == 2
MaxPlanLines == 3
MaxLen == 2
MaxChars == 2
MaxBatches == 2
MaxBatchFiles == 3

(***************************************************************************)
(* Generic helpers                                                         *)
(***************************************************************************)
Range(s) == {s[i] : i \in 1..Len(s)}

SeqsUpTo(S, n) == UNION {[1..k -> S] : k \in 0..n}

RECURSIVE SumLen(_)
SumLen(fs) == IF fs = <<>> THEN 0 ELSE Head(fs).len + SumLen(Tail(fs))

IsSuffix(s, t) ==
    /\ Len(s) <= Len(t)
    /\ SubSeq(t, Len(t) - Len(s) + 1, Len(t)) = s

IsPrefix(s, t) ==
    /\ Len(s) <= Len(t)
    /\ SubSeq(t, 1, Len(s)) = s

(***************************************************************************)
(* Paths (os.path)                                                         *)
(***************************************************************************)
LastSlash(p) ==
    IF \E i \in 1..Len(p) : p[i] = "/"
    THEN CHOOSE i \in 1..Len(p) : p[i] = "/" /\ \A j \in (i+1)..Len(p) : p[j] # "/"
    ELSE 0

basename(p) == SubSeq(p, LastSlash(p) + 1, Len(p))

dirname(p) == IF LastSlash(p) = 0 THEN <<>> ELSE SubSeq(p, 1, LastSlash(p) - 1)

ExtTokens == {".py", ".json", ".js"}

\* os.path.splitext(p)[1]: the extension of the basename; a basename that
\* is only a dotted token (".env") has no extension.
splitext_ext(p) ==
    LET b == basename(p)
    IN  IF Len(b) >= 2 /\ b[Len(b)] \in ExtTokens THEN b[Len(b)] ELSE ""

Paths ==
    { <<"a", ".py">>,
      <<"d", "/", "a", ".py">>,
      <<"e", "/", "a", ".py">>,
      <<"package", ".json">> }

FileRecords == [path : Paths, len : 1..MaxLen]

DistinctPaths(fs) == \A i, j \in 1..Len(fs) : i # j => fs[i].path # fs[j].path

FileLists == {fs \in SeqsUpTo(FileRecords, MaxFiles) : DistinctPaths(fs)}

(***************************************************************************)
(* Plan text.  A line is a batch header (the header regex matched, `name`  *)
(* is its group 1), a "- <path>" line (`path` is the text after the dash,  *)
(* stripped of quotes) or any other line.                                  *)
(***************************************************************************)
ItemTexts == Paths \cup { <<"x", "/", "d", "/", "a", ".py">> }

PlanLineKinds ==
    { [kind |-> "header", name |-> <<"A">>, path |-> <<>>],
      [kind |-> "text", name |-> <<>>, path |-> <<>>] }
    \cup { [kind |-> "item", name |-> <<>>, path |-> t] : t \in ItemTexts }

PlanTexts == SeqsUpTo(PlanLineKinds, MaxPlanLines)

NoBatch == <<>>

\* The fuzzy match of one "- <path>" line: first file, in dict order, with
\* p.endswith(file_path) or file_path.endswith(p) or equal basenames.
FuzzyHit(f, file_path) ==
    \/ IsSuffix(file_path, f.path)
    \/ IsSuffix(f.path, file_path)
    \/ basename(f.path) = basename(file_path)

ResolveIgnoringExact(fs, file_path) ==
    IF \E i \in 1..Len(fs) : FuzzyHit(fs[i], file_path)
    THEN <<fs[CHOOSE i \in 1..Len(fs) :
                /\ FuzzyHit(fs[i], file_path)
                /\ \A j \in 1..(i-1) : ~FuzzyHit(fs[j], file_path)]>>
    ELSE <<>>

ResolvePlanPath(fs, file_path) ==
    IF \E i \in 1..Len(fs) : fs[i].path = file_path
    THEN <<fs[CHOOSE i \in 1..Len(fs) : fs[i].path = file_path]>>
    ELSE ResolveIgnoringExact(fs, file_path)

\* Closing the batch under construction: kept only if it has files.
FlushBatch(bs, current) ==
    IF current # NoBatch /\ current[1].files # <<>>
    THEN Append(bs, current[1])
    ELSE bs

RECURSIVE ParseLines(_, _, _, _)
ParseLines(lines, fs, bs, current) ==
    IF lines = <<>>
    THEN FlushBatch(bs, current)
    ELSE LET line == Head(lines)
         IN  IF line.kind = "header"
             THEN ParseLines(Tail(lines), fs, FlushBatch(bs, current),
                             <<[name |-> line.name, files |-> <<>>]>>)
             ELSE IF line.kind = "item" /\ current # NoBatch
             THEN ParseLines(Tail(lines), fs, bs,
                             <<[name |-> current[1].name,
                                files |-> current[1].files
                                            \o ResolvePlanPath(fs, line.path)]>>)
             ELSE ParseLines(Tail(lines), fs, bs, current)

_parse_batches_from_plan(lines, fs) ==
    IF lines = <<>> THEN <<>> ELSE ParseLines(lines, fs, <<>>, NoBatch)

(***************************************************************************)
(* _split_oversized_batches                                                *)
(***************************************************************************)
PartName(name, sub_idx) == Append(name, "(Part " \o ToString(sub_idx) \o ")")

\* `if sub_batch_chars + file_chars > max_chars and sub_batch_files`
MustFlushIgnoringRunningTotal(sub_chars, file_chars, sub_files, mc) ==
    file_chars > mc /\ sub_files # <<>>

MustFlush(sub_chars, file_chars, sub_files, mc) ==
    sub_chars + file_chars > mc /\ sub_files # <<>>

RECURSIVE SplitOne(_, _, _, _, _, _)
SplitOne(name, fs, mc, sub_files, sub_chars, sub_idx) ==
    IF fs = <<>>
    THEN IF sub_files # <<>>
         THEN << [name |-> IF sub_idx > 1 THEN PartName(name, sub_idx) ELSE name,
                  files |-> sub_files] >>
         ELSE <<>>
    ELSE LET f == Head(fs)
         IN  IF MustFlush(sub_chars, f.len, sub_files, mc)
             THEN << [name |-> PartName(name, sub_idx), files |-> sub_files] >>
                  \o SplitOne(name, Tail(fs), mc, <<f>>, f.len, sub_idx + 1)
             ELSE SplitOne(name, Tail(fs), mc, Append(sub_files, f),
                           sub_chars + f.len, sub_idx)

RECURSIVE _split_oversized_batches(_, _)
_split_oversized_batches(bs, mc) ==
    IF bs = <<>>
    THEN <<>>
    ELSE LET batch == Head(bs)
         IN  (IF SumLen(batch.files) <= mc
              THEN <<batch>>
              ELSE SplitOne(batch.name, batch.files, mc, <<>>, 0, 1))
             \o _split_oversized_batches(Tail(bs), mc)

(***************************************************************************)
(* _group_by_directory                                                     *)
(***************************************************************************)
config_extensions == {".json", ".yml", ".yaml", ".toml", ".cfg", ".ini", ".env", ".lock"}

config_names ==
    { <<"package", ".json">>, <<"requirements", ".txt">>, <<"tsconfig", ".json">>,
      <<".gitignore">>, <<"Dockerfile">>, <<"docker-compose", ".yml">>,
      <<".env">>, <<".env", ".example">>, <<"next", ".config", ".mjs">>,
      <<"next", ".config", ".ts">>, <<"tailwind", ".config", ".ts">>,
      <<"postcss", ".config", ".mjs">>, <<"eslint", ".config", ".mjs">>,
      <<"vite", ".config", ".ts">> }

IsConfigFile(f) ==
    basename(f.path) \in config_names \/ splitext_ext(f.path) \in config_extensions

RootDir == <<"root">>

DirKey(f) == IF dirname(f.path) = <<>> THEN RootDir ELSE dirname(f.path)

\* Order of the directory names as Python orders the strings.
TokenRank(t) ==
    CASE t = "/" -> 0
      [] t = "a" -> 1
      [] t = "d" -> 2
      [] t = "e" -> 3
      [] t = "root" -> 4
      [] t = "x" -> 5
      [] OTHER -> 6

RECURSIVE LexLess(_, _)
LexLess(s, t) ==
    IF t = <<>> THEN FALSE
    ELSE IF s = <<>> THEN TRUE
    ELSE IF TokenRank(Head(s)) # TokenRank(Head(t))
         THEN TokenRank(Head(s)) < TokenRank(Head(t))
         ELSE LexLess(Tail(s), Tail(t))

RECURSIVE SortedDirs(_)
SortedDirs(D) ==
    IF D = {} THEN <<>>
    ELSE LET m == CHOOSE d \in D : \A e \in D \ {d} : LexLess(d, e)
         IN  <<m>> \o SortedDirs(D \ {m})

DirBatchName(d) ==
    IF d = RootDir THEN <<"Root Files">>
    ELSE [i \in 1..Len(d) |-> IF d[i] = "/" THEN " > " ELSE d[i]]

_group_by_directory(fs, mc) ==
    LET config_files == SelectSeq(fs, IsConfigFile)
        others == SelectSeq(fs, LAMBDA f : ~IsConfigFile(f))
        dirs == SortedDirs({DirKey(f) : f \in Range(others)})
        dir_batches ==
            [i \in 1..Len(dirs) |->
                [name |-> DirBatchName(dirs[i]),
                 files |-> SelectSeq(others, LAMBDA f : DirKey(f) = dirs[i])]]
        bs == (IF config_files # <<>>
               THEN << [name |-> <<"Config & Dependencies">>, files |-> config_files] >>
               ELSE <<>>) \o dir_batches
    IN  _split_oversized_batches(bs, mc)

(***************************************************************************)
(* _group_files_into_batches                                               *)
(***************************************************************************)
AssignedPaths(bs) == UNION {{f.path : f \in Range(bs[i].files)} : i \in 1..Len(bs)}

\* The plan's batches alone, the files the plan missed left out.
WithRemainingDropped(bs, fs) == bs

WithRemaining(bs, fs) ==
    LET missing == {f.path : f \in Range(fs)} \ AssignedPaths(bs)
    IN  IF missing = {}
        THEN bs
        ELSE Append(bs, [name |-> <<"Remaining Files">>,
                         files |-> SelectSeq(fs, LAMBDA f : f.path \in missing)])

_group_files_into_batches(fs, lines, mc) ==
    LET batches_from_plan == _parse_batches_from_plan(lines, fs)
    IN  IF batches_from_plan # <<>>
        THEN _split_oversized_batches(WithRemaining(batches_from_plan, fs), mc)
        ELSE _group_by_directory(fs, mc)

(***************************************************************************)
(* Idle values of the variables a specification does not use               *)
(***************************************************************************)
RunIdle ==
    /\ pc = "idle"
    /\ plan = <<>>
    /\ fallback_mode = FALSE
    /\ retry_count = 0
    /\ sandbox_logs = <<>>
    /\ run_files = <<>>
    /\ all_errors = <<>>
    /\ stream = <<>>
    /\ memory = <<>>
    /\ gen_plans = <<>>
    /\ outcomes = <<>>

BatchIdle ==
    /\ bpc = "idle"
    /\ files = <<>>
    /\ plan_lines = <<>>
    /\ max_chars = 0
    /\ in_batches = <<>>
    /\ batches = <<>>

NoResult == [kind |-> "none"]

GenIdle ==
    /\ gpc = "idle"
    /\ batch_idx = 0
    /\ all_generated_files = <<>>
    /\ previously_generated_summaries = <<>>
    /\ calls = <<>>
    /\ sleeps = <<>>
    /\ gen_result = NoResult
    /\ attempt_end = NoResult

NoRequest == [model_idx |-> 0, attempt |-> 0, status |-> 0, body |-> "none"]

CallIdle ==
    /\ cpc = "idle"
    /\ api_key = FALSE
    /\ model_arg = "None"
    /\ all_models = <<>>
    /\ model_idx = 0
    /\ attempt = 0
    /\ last_request = NoRequest
    /\ request_log = <<>>
    /\ call_result = NoResult

ParseIdle ==
    /\ ppc = "idle"
    /\ response = <<>>
    /\ parsed_files = <<>>
    /\ strategy = 0

EntryIdle ==
    /\ epc = "idle"
    /\ gen_files = <<>>
    /\ entry_result = NoResult

DetectIdle ==
    /\ dpc = "idle"
    /\ detect_log = {}
    /\ detection = NoResult

SandboxIdle ==
    /\ spc = "unused"
    /\ sandbox = 0
    /\ sessions = <<>>
    /\ exec_calls = 0
    /\ close_attempts = <<>>
    /\ sbx_runtime = "none"
    /\ polls = 0
    /\ sbx_return = {}
    /\ attempt_result = "none"
    /\ e2b_available = TRUE
    /\ health = "none"
    /\ wpc = "unused"
    /\ written_paths = <<>>
    /\ launch_path = <<>>
    /\ tpc = <<>>
    /\ own = <<>>

AuxIdle == EntryIdle /\ DetectIdle /\ SandboxIdle

ExtIdle == GenIdle /\ CallIdle /\ ParseIdle /\ AuxIdle

(***************************************************************************)
(* SpecBatch: _group_files_into_batches on bounded inputs                  *)
(***************************************************************************)
InitBatch ==
    /\ bpc = "input"
    /\ files \in FileLists
    /\ plan_lines \in PlanTexts
    /\ max_chars \in 1..MaxChars
    /\ in_batches = <<>>
    /\ batches = <<>>
    /\ RunIdle
    /\ ExtIdle

GroupFilesIntoBatches ==
    /\ bpc = "input"
    /\ batches' = _group_files_into_batches(files, plan_lines, max_chars)
    /\ bpc' = "done"
    /\ UNCHANGED <<files, plan_lines, max_chars, in_batches>>
    /\ UNCHANGED <<run_vars, ext_vars>>

NextBatch == GroupFilesIntoBatches

SpecBatch == InitBatch /\ [][NextBatch]_vars

(***************************************************************************)
(* SpecSplit: _split_oversized_batches on bounded inputs                   *)
(***************************************************************************)
SplitFileRecords == [path : {<<"a", ".py">>}, len : 0..MaxLen]

SplitBatches == [name : {<<"B">>}, files : SeqsUpTo(SplitFileRecords, MaxBatchFiles)]

InitSplit ==
    /\ bpc = "input"
    /\ files = <<>>
    /\ plan_lines = <<>>
    /\ max_chars \in 0..MaxChars
    /\ in_batches \in SeqsUpTo(SplitBatches, MaxBatches)
    /\ batches = <<>>
    /\ RunIdle
    /\ ExtIdle

SplitOversizedBatches ==
    /\ bpc = "input"
    /\ batches' = _split_oversized_batches(in_batches, max_chars)
    /\ bpc' = "done"
    /\ UNCHANGED <<files, plan_lines, max_chars, in_batches>>
    /\ UNCHANGED <<run_vars, ext_vars>>

NextSplit == SplitOversizedBatches

SpecSplit == InitSplit /\ [][NextSplit]_vars

(***************************************************************************)
(* Batch planner properties                                                *)
(***************************************************************************)
\* Number of occurrences of the path p in the returned batches.
RECURSIVE CountIn(_, _)
CountIn(fs, p) ==
    IF fs = <<>> THEN 0
    ELSE (IF Head(fs).path = p THEN 1 ELSE 0) + CountIn(Tail(fs), p)

RECURSIVE Occurrences(_, _)
Occurrences(bs, p) ==
    IF bs = <<>> THEN 0 ELSE CountIn(Head(bs).files, p) + Occurrences(Tail(bs), p)

\* C1 - batch coverage: once _group_files_into_batches has returned, every
\* input file is in at least one returned batch (plan-driven path,
\* "Remaining Files" path and directory fallback, after the oversizing pass).
C1_BatchCoverage ==
    bpc = "done" =>
        \A i \in 1..Len(files) :
            \E b \in 1..Len(batches) :
                \E k \in 1..Len(batches[b].files) : batches[b].files[k] = files[i]

\* A plan that names one of two files: the other one is returned in the
\* synthetic "Remaining Files" batch.
C1_Witness ==
    /\ bpc = "done"
    /\ Len(files) = 2
    /\ \E b \in 1..Len(batches) : batches[b].name = <<"Remaining Files">>
    /\ \E b \in 1..Len(batches) : batches[b].name = <<"A">>

\* C2 - batch disjointness: no input file is in more than one returned
\* batch, and none is twice in one batch.
C2_BatchDisjoint ==
    bpc = "done" =>
        \A i \in 1..Len(files) : Occurrences(batches, files[i].path) <= 1

\* C3 - budget invariant: every batch returned by _split_oversized_batches
\* has total content length <= max_chars unless it is exactly one file that
\* is itself longer than max_chars; such a file never shares a batch.
C3_BudgetInvariant ==
    bpc = "done" =>
        \A b \in 1..Len(batches) :
            /\ \/ SumLen(batches[b].files) <= max_chars
               \/ /\ Len(batches[b].files) = 1
                  /\ batches[b].files[1].len > max_chars
            /\ \A k \in 1..Len(batches[b].files) :
                   batches[b].files[k].len > max_chars => Len(batches[b].files) = 1

\* A batch of three files is split: one file longer than max_chars stands
\* alone between two parts that fit.
C3_Witness ==
    /\ bpc = "done"
    /\ Len(in_batches) = 1
    /\ Len(batches) = 3
    /\ Len(batches[2].files) = 1
    /\ batches[2].files[1].len > max_chars
    /\ SumLen(batches[1].files) <= max_chars

(***************************************************************************)
(* Texts of the run.  A text (sandbox log, exception message) is the set   *)
(* of literal fragments it contains; a regular-expression search and a     *)
(* substring test are decided fragment by fragment.                        *)
(***************************************************************************)
MAX_RETRIES == 3

\* error_patterns of _detect_errors, in list order.
error_patterns ==
    << <<"Cannot find module", "NODE_MODULE_NOT_FOUND">>,
       <<"Error: Cannot find module", "NODE_MODULE_NOT_FOUND">>,
       <<"MODULE_NOT_FOUND", "NODE_MODULE_NOT_FOUND">>,
       <<"node:internal/modules", "NODE_INTERNAL_ERROR">>,
       <<"throw err;", "NODE_CRASH">>,
       <<"ReferenceError:", "NODE_REFERENCE_ERROR">>,
       <<"Error: listen EADDRINUSE", "NODE_PORT_IN_USE">>,
       <<"ENOENT: no such file", "NODE_FILE_NOT_FOUND">>,
       <<"SyntaxError: Unexpected", "NODE_SYNTAX_ERROR">>,
       <<"Error: ENOENT", "NODE_FILE_NOT_FOUND">>,
       <<"BACKEND_CRASH:", "BACKEND_CRASH">>,
       <<"FATAL: Node\\.js Backend failed", "NODE_SERVER_CRASH">>,
       <<"FATAL: Backend failed", "BACKEND_CRASH">>,
       <<"Backend failed to start", "BACKEND_STARTUP_FAILED">>,
       <<"No such file or directory", "FILE_NOT_FOUND">>,
       <<"can't open file", "FILE_NOT_FOUND">>,
       <<"FRONTEND BUILD FAILED", "FRONTEND_BUILD_ERROR">>,
       <<"npm ERR!", "NPM_ERROR">>,
       <<"error TS\\d+:", "TYPESCRIPT_ERROR">>,
       <<"SyntaxError:", "SYNTAX_ERROR">>,
       <<"Module not found", "MODULE_NOT_FOUND">>,
       <<"Sandbox Error:", "SANDBOX_ERROR">>,
       <<"Command exited with code [^0]", "COMMAND_FAILED">>,
       <<"syntax error near unexpected token", "BASH_SYNTAX_ERROR">>,
       <<"mkdir.*failed", "MKDIR_ERROR">>,
       <<"Permission denied", "PERMISSION_ERROR">>,
       <<"ModuleNotFoundError:", "PYTHON_IMPORT_ERROR">>,
       <<"ImportError:", "PYTHON_IMPORT_ERROR">>,
       <<"IndentationError:", "PYTHON_SYNTAX_ERROR">>,
       <<"NameError:", "PYTHON_NAME_ERROR">>,
       <<"TypeError:", "PYTHON_TYPE_ERROR">>,
       <<"FileNotFoundError:", "PYTHON_FILE_NOT_FOUND">>,
       <<"ECONNREFUSED", "CONNECTION_ERROR">>,
       <<"Failed to connect", "CONNECTION_ERROR">>,
       <<"Backend connection failed", "BACKEND_ERROR">>,
       <<"GENERATION FAILED", "GENERATION_ERROR">>,
       <<"No files were generated", "EMPTY_GENERATION">>,
       <<"MongoNetworkError", "DATABASE_CONNECTION_ERROR">>,
       <<"MongoServerError", "DATABASE_ERROR">>,
       <<"ECONNREFUSED.*27017", "MONGODB_CONNECTION_ERROR">> >>

\* Fragments of sandbox logs: for every pattern of error_patterns a text it
\* matches (the pattern itself when it is a literal), texts that match it
\* only when letter case is ignored, texts execute_in_sandbox returns, and
\* texts that match no pattern.
DetectFragments ==
    { "Cannot find module",
      "Error: Cannot find module",
      "MODULE_NOT_FOUND",
      "node:internal/modules",
      "throw err;",
      "ReferenceError:",
      "Error: listen EADDRINUSE",
      "ENOENT: no such file",
      "SyntaxError: Unexpected",
      "Error: ENOENT",
      "BACKEND_CRASH:",
      "FATAL: Node.js Backend failed",
      "FATAL: Backend failed",
      "Backend failed to start",
      "No such file or directory",
      "can't open file",
      "FRONTEND BUILD FAILED",
      "npm ERR!",
      "error TS2304:",
      "SyntaxError:",
      "Module not found",
      "Sandbox Error:",
      "Command exited with code 1",
      "syntax error near unexpected token",
      "mkdir: failed",
      "Permission denied",
      "ModuleNotFoundError:",
      "ImportError:",
      "IndentationError:",
      "NameError:",
      "TypeError:",
      "FileNotFoundError:",
      "ECONNREFUSED",
      "Failed to connect",
      "Backend connection failed",
      "GENERATION FAILED",
      "No files were generated",
      "MongoNetworkError",
      "MongoServerError",
      "ECONNREFUSED 127.0.0.1:27017",
      "FATAL: Node.js Backend failed to start after 60 seconds.",
      "FATAL: Node.js Backend failed to start",
      "Node.js Backend started (Frontend build failed)",
      "CODE GENERATION FAILED:",
      "backend_crash:",
      "no such file or directory",
      "ENOENT: no such file or directory",
      "Command exited with code 0",
      "Backend Server started.",
      "[PREVIEW_URL] https://",
      "Dual-Stack Deployed Successfully.",
      "E2B Sandbox not available",
      "Node.js Server started successfully.",
      "Could not read app.log" }

\* The pairs (pattern, fragment) of error_patterns and DetectFragments for
\* which re.search(pattern, fragment, re.IGNORECASE) finds a match.
RegexMatches ==
    { <<"Cannot find module", "Cannot find module">>,
      <<"Cannot find module", "Error: Cannot find module">>,
      <<"Error: Cannot find module", "Error: Cannot find module">>,
      <<"MODULE_NOT_FOUND", "MODULE_NOT_FOUND">>,
      <<"node:internal/modules", "node:internal/modules">>,
      <<"throw err;", "throw err;">>,
      <<"ReferenceError:", "ReferenceError:">>,
      <<"Error: listen EADDRINUSE", "Error: listen EADDRINUSE">>,
      <<"ENOENT: no such file", "ENOENT: no such file">>,
      <<"SyntaxError: Unexpected", "SyntaxError: Unexpected">>,
      <<"SyntaxError:", "SyntaxError: Unexpected">>,
      <<"Error: ENOENT", "Error: ENOENT">>,
      <<"BACKEND_CRASH:", "BACKEND_CRASH:">>,
      <<"FATAL: Node\\.js Backend failed", "FATAL: Node.js Backend failed">>,
      <<"FATAL: Backend failed", "FATAL: Backend failed">>,
      <<"Backend failed to start", "Backend failed to start">>,
      <<"No such file or directory", "No such file or directory">>,
      <<"can't open file", "can't open file">>,
      <<"FRONTEND BUILD FAILED", "FRONTEND BUILD FAILED">>,
      <<"npm ERR!", "npm ERR!">>,
      <<"error TS\\d+:", "error TS2304:">>,
      <<"SyntaxError:", "SyntaxError:">>,
      <<"Module not found", "Module not found">>,
      <<"Sandbox Error:", "Sandbox Error:">>,
      <<"Command exited with code [^0]", "Command exited with code 1">>,
      <<"syntax error near unexpected token", "syntax error near unexpected token">>,
      <<"mkdir.*failed", "mkdir: failed">>,
      <<"Permission denied", "Permission denied">>,
      <<"ModuleNotFoundError:", "ModuleNotFoundError:">>,
      <<"ImportError:", "ImportError:">>,
      <<"IndentationError:", "IndentationError:">>,
      <<"NameError:", "NameError:">>,
      <<"TypeError:", "TypeError:">>,
      <<"FileNotFoundError:", "FileNotFoundError:">>,
      <<"ECONNREFUSED", "ECONNREFUSED">>,
      <<"Failed to connect", "Failed to connect">>,
      <<"Backend connection failed", "Backend connection failed">>,
      <<"GENERATION FAILED", "GENERATION FAILED">>,
      <<"No files were generated", "No files were generated">>,
      <<"MongoNetworkError", "MongoNetworkError">>,
      <<"MongoServerError", "MongoServerError">>,
      <<"ECONNREFUSED", "ECONNREFUSED 127.0.0.1:27017">>,
      <<"ECONNREFUSED.*27017", "ECONNREFUSED 127.0.0.1:27017">>,
      <<"FATAL: Node\\.js Backend failed", "FATAL: Node.js Backend failed to start after 60 seconds.">>,
      <<"Backend failed to start", "FATAL: Node.js Backend failed to start after 60 seconds.">>,
      <<"FATAL: Node\\.js Backend failed", "FATAL: Node.js Backend failed to start">>,
      <<"Backend failed to start", "FATAL: Node.js Backend failed to start">>,
      <<"FRONTEND BUILD FAILED", "Node.js Backend started (Frontend build failed)">>,
      <<"GENERATION FAILED", "CODE GENERATION FAILED:">>,
      <<"BACKEND_CRASH:", "backend_crash:">>,
      <<"No such file or directory", "no such file or directory">>,
      <<"ENOENT: no such file", "ENOENT: no such file or directory">>,
      <<"No such file or directory", "ENOENT: no such file or directory">> }

\* re.search(pattern, fragment, re.IGNORECASE)
RegexSearch(pattern, fragment) == <<pattern, fragment>> \in RegexMatches

\* `marker in text` (case-sensitive) on one fragment.
FragmentContains(fragment, marker) ==
    \/ fragment = marker
    \/ <<fragment, marker>> \in
          { <<"Sandbox Error:", "Sandbox Error">>,
            <<"FRONTEND BUILD FAILED", "BUILD FAILED">>,
            <<"FATAL ERROR:", "FATAL ERROR">> }

TextContains(text, marker) == \E fr \in text : FragmentContains(fr, marker)

\* The last rule of the list that matches, instead of the first.
LastMatch(text) ==
    IF \E i \in 1..Len(error_patterns) : \E fr \in text : RegexSearch(error_patterns[i][1], fr)
    THEN CHOOSE i \in 1..Len(error_patterns) :
            /\ \E fr \in text : RegexSearch(error_patterns[i][1], fr)
            /\ \A j \in (i+1)..Len(error_patterns) :
                  \A fr \in text : ~RegexSearch(error_patterns[j][1], fr)
    ELSE 0

FirstMatch(text) ==
    IF \E i \in 1..Len(error_patterns) : \E fr \in text : RegexSearch(error_patterns[i][1], fr)
    THEN CHOOSE i \in 1..Len(error_patterns) :
            /\ \E fr \in text : RegexSearch(error_patterns[i][1], fr)
            /\ \A j \in 1..(i-1) : \A fr \in text : ~RegexSearch(error_patterns[j][1], fr)
    ELSE 0

\* Length of the context _detect_errors cuts around the match: at most
\* 200 characters before and 500 after it.
ContextLen == 700

\* _detect_errors: (error_detected, error_type, error_message)
_detect_errors(text) ==
    IF text = {} \/ FirstMatch(text) = 0
    THEN [detected |-> FALSE, type |-> "", message |-> [text |-> {}, len |-> 0]]
    ELSE [detected |-> TRUE,
          type |-> error_patterns[FirstMatch(text)][2],
          message |-> [text |-> text, len |-> ContextLen]]

\* What execute_in_sandbox returns: a started server with its preview URL
\* (single stack or dual stack), the sandbox-unavailable message, a crashed
\* backend, a sandbox exception, a failed frontend build.
SandboxReturns ==
    { {"Backend Server started.", "[PREVIEW_URL] https://"},
      {"Dual-Stack Deployed Successfully.", "[PREVIEW_URL] https://"},
      {"E2B Sandbox not available"},
      {"BACKEND_CRASH:"},
      {"Sandbox Error:"},
      {"FRONTEND BUILD FAILED"} }

\* Exceptions raised by generate_code_batched: str(e) and its length.
GeminiAPIErrorMessage == [text |-> {"All Gemini models failed after retries"}, len |-> 150]

NoFilesMessage == [text |-> {"CODE GENERATION FAILED:", "no parseable files"}, len |-> 300]

OnlyErrorLogMessage == [text |-> {"CODE GENERATION FAILED:", "Only error.log produced"}, len |-> 260]

\* File lists a generation attempt can parse (file names).
GenFileLists ==
    { <<"error.log">>,
      <<"backend/main.py">>,
      <<"backend/main.py", "frontend/preview.html">> }

\* `len(files) == 1 and files[0].get('filename') == 'error.log'`
OnlyErrorLog(fs) == Len(fs) = 1 /\ fs[1] = "error.log"

(***************************************************************************)
(* _build_error_context and the plan text handed to generation             *)
(***************************************************************************)
Min(a, b) == IF a <= b THEN a ELSE b

\* message[:1000]
Truncate(message, n) == [text |-> message.text, len |-> Min(message.len, n)]

ErrorBlock(i, error) ==
    [seg |-> "error", index |-> i, attempt |-> error.attempt,
     type |-> error.type, message |-> Truncate(error.message, 1000)]

\* Only the most recent error is rendered.
_build_error_context_last_only(errors) ==
    IF errors = <<>> THEN <<>>
    ELSE << [seg |-> "banner"], ErrorBlock(1, errors[Len(errors)]), [seg |-> "common fixes"] >>

_build_error_context(errors) ==
    IF errors = <<>> THEN <<>>
    ELSE << [seg |-> "banner"] >>
         \o [i \in 1..Len(errors) |-> ErrorBlock(i, errors[i])]
         \o << [seg |-> "common fixes"] >>

PlanTextsOfRun ==
    { << [seg |-> "plan"] >>,
      << [seg |-> "plan"], [seg |-> "[ERROR]"] >> }

HasErrorMarker(text) == \E i \in 1..Len(text) : text[i].seg = "[ERROR]"

\* The plan argument of generate_code_batched on the attempt with this
\* retry_count.
PlanForAttempt(rc, p, errors) ==
    IF rc > 0 THEN p \o _build_error_context(errors) ELSE p

(***************************************************************************)
(* One POST /api/resurrect request: do_POST iterating the generator        *)
(* process_resurrection_stream and writing every chunk to the response.    *)
(* Generation runs in single-call mode (no batch progress messages).       *)
(***************************************************************************)
LogEvent == [type |-> "log"]
DebugEvent == [type |-> "debug"]
RepoFilesEvent == [type |-> "repo_files"]

\* Results of scan_repository_deep (it catches its own exceptions).
ScanResults ==
    { [has_files |-> FALSE, database |-> FALSE, framework |-> FALSE, frontend |-> FALSE],
      [has_files |-> TRUE, database |-> TRUE, framework |-> FALSE, frontend |-> FALSE],
      [has_files |-> TRUE, database |-> TRUE, framework |-> TRUE, frontend |-> TRUE] }

DetectionLogs(scan) ==
    (IF scan.database THEN <<LogEvent>> ELSE <<>>)
    \o (IF scan.framework THEN <<LogEvent>> ELSE <<>>)
    \o (IF scan.frontend THEN <<LogEvent>> ELSE <<>>)

\* The retry test giving up one attempt early.
CanRetryOneShort(rc) == rc + 1 < MAX_RETRIES

\* `if retry_count < MAX_RETRIES` of the three failure branches
CanRetry(rc) == rc < MAX_RETRIES

\* `retry_count += 1` without the increment
NextRetryCountStuck(rc) == rc

\* `retry_count += 1`
NextRetryCount(rc) == rc + 1

\* `while retry_count <= MAX_RETRIES` after a `continue`
AfterContinue(rc) == IF rc <= MAX_RETRIES THEN "generate" ELSE "finish"

\* The attempt number recorded in an AttemptError, off by one.
AttemptNumberZeroBased(rc) == rc

\* "attempt": retry_count + 1
AttemptNumber(rc) == rc + 1

Init ==
    /\ pc = "request"
    /\ plan = <<>>
    /\ fallback_mode = FALSE
    /\ retry_count = 0
    /\ sandbox_logs = {}
    /\ run_files = <<>>
    /\ all_errors = <<>>
    /\ stream = <<>>
    /\ memory = <<>>
    /\ gen_plans = <<>>
    /\ outcomes = <<>>
    /\ BatchIdle
    /\ ExtIdle

\* do_POST up to the first next() of the generator: reading the body can
\* raise (no Content-Length, invalid JSON).
DoPost ==
    /\ pc = "request"
    /\ pc' \in {"deep_scan", "handler_except"}
    /\ UNCHANGED <<plan, fallback_mode, retry_count, sandbox_logs, run_files,
                   all_errors, stream, memory, gen_plans, outcomes>>
    /\ UNCHANGED <<batch_vars, ext_vars>>

\* Lines 2661-2693: deep scan and its progress events.
DeepScan ==
    /\ pc = "deep_scan"
    /\ \E scan \in ScanResults :
          stream' = stream \o <<LogEvent, LogEvent>>
                      \o (IF scan.has_files THEN <<RepoFilesEvent>> ELSE <<>>)
                      \o <<DebugEvent>> \o DetectionLogs(scan) \o <<LogEvent>>
    /\ memory' = memory \o <<"attempt_start", "attempt_start">>
    /\ pc' = "planning"
    /\ UNCHANGED <<plan, fallback_mode, retry_count, sandbox_logs, run_files,
                   all_errors, gen_plans, outcomes>>
    /\ UNCHANGED <<batch_vars, ext_vars>>

\* Lines 2695-2717: generate_modernization_plan returns a plan text, or
\* raises out of the generator (_call_gemini without an API key).
Planning ==
    /\ pc = "planning"
    /\ \/ /\ pc' = "handler_except"
          /\ UNCHANGED <<plan, fallback_mode, stream>>
       \/ \E text \in PlanTextsOfRun :
             /\ plan' = text
             /\ fallback_mode' = HasErrorMarker(text)
             /\ stream' = stream \o <<DebugEvent>>
                            \o (IF HasErrorMarker(text) THEN <<LogEvent>> ELSE <<>>)
                            \o <<LogEvent>>
             /\ pc' = "generate"
    /\ UNCHANGED <<retry_count, sandbox_logs, run_files, all_errors, memory,
                   gen_plans, outcomes>>
    /\ UNCHANGED <<batch_vars, ext_vars>>

\* One of the three failure branches of the loop: record the AttemptError,
\* then retry or give up.
AttemptFailed(events, kind, type, message, parsed, returned, retry_logs, final_logs) ==
    /\ all_errors' = Append(all_errors,
                            [attempt |-> AttemptNumber(retry_count),
                             type |-> type, message |-> message])
    /\ outcomes' = Append(outcomes, [kind |-> kind, type |-> type, parsed |-> parsed,
                                    returned |-> returned])
    /\ stream' = stream \o events \o <<LogEvent>>
    /\ IF CanRetry(retry_count)
       THEN /\ retry_count' = NextRetryCount(retry_count)
            /\ sandbox_logs' = retry_logs
            /\ pc' = AfterContinue(NextRetryCount(retry_count))
            /\ UNCHANGED memory
       ELSE /\ memory' = Append(memory, "failure")
            /\ sandbox_logs' = final_logs
            /\ pc' = "finish"
            /\ UNCHANGED retry_count

\* Lines 2719-2756 and the except branches 2785-2825: one call of
\* generate_code_batched.
Generate ==
    /\ pc = "generate"
    /\ gen_plans' = Append(gen_plans, PlanForAttempt(retry_count, plan, all_errors))
    /\ \/ \* GeminiAPIError: the whole model chain is exhausted
          /\ AttemptFailed(<<LogEvent>>, "GEMINI_API_DOWN", "GEMINI_API_DOWN",
                           GeminiAPIErrorMessage, <<>>, <<>>,
                           {"GEMINI_API_ERROR:"} \cup GeminiAPIErrorMessage.text,
                           {"FATAL: Gemini API unreachable:"} \cup GeminiAPIErrorMessage.text)
          /\ UNCHANGED run_files
       \/ \* Exception: no file could be parsed from the response
          /\ AttemptFailed(<<LogEvent>>, "EXCEPTION", "EXCEPTION", NoFilesMessage, <<>>, <<>>,
                           {"EXCEPTION:"} \cup NoFilesMessage.text,
                           {"FATAL ERROR:"} \cup NoFilesMessage.text)
          /\ UNCHANGED run_files
       \/ \E fs \in GenFileLists :
             /\ run_files' = fs
             /\ IF OnlyErrorLog(fs)
                THEN AttemptFailed(<<LogEvent>>, "EXCEPTION", "EXCEPTION",
                                   OnlyErrorLogMessage, fs, <<>>,
                                   {"EXCEPTION:"} \cup OnlyErrorLogMessage.text,
                                   {"FATAL ERROR:"} \cup OnlyErrorLogMessage.text)
                ELSE /\ stream' = stream \o <<LogEvent, DebugEvent, LogEvent, LogEvent, LogEvent>>
                     /\ pc' = "execute"
                     /\ UNCHANGED <<retry_count, sandbox_logs, all_errors, memory, outcomes>>
    /\ UNCHANGED <<plan, fallback_mode>>
    /\ UNCHANGED <<batch_vars, ext_vars>>

\* Lines 2757-2783: execute_in_sandbox and _detect_errors on its log.
Execute ==
    /\ pc = "execute"
    /\ \E log \in SandboxReturns :
          LET d == _detect_errors(log)
          IN  IF d.detected
              THEN AttemptFailed(<<DebugEvent>>, "SANDBOX", d.type, d.message, run_files, <<log>>,
                                 log, log)
              ELSE /\ sandbox_logs' = log
                   /\ memory' = Append(memory, "success")
                   /\ outcomes' = Append(outcomes, [kind |-> "SUCCESS", type |-> "", parsed |-> run_files,
                                              returned |-> <<log>>])
                   /\ stream' = stream \o <<DebugEvent, LogEvent>>
                   /\ pc' = "finish"
                   /\ UNCHANGED <<retry_count, all_errors>>
    /\ UNCHANGED <<plan, fallback_mode, run_files, gen_plans>>
    /\ UNCHANGED <<batch_vars, ext_vars>>

\* Lines 2827-2844
Preview ==
    IF TextContains(sandbox_logs, "[PREVIEW_URL] https://") THEN "url"
    ELSE IF \E i \in 1..Len(run_files) : run_files[i] = "frontend/preview.html" THEN "html"
    ELSE ""

\* A status that counts a run as resurrected only with a live preview URL.
StatusRequiringPreviewUrl ==
    IF fallback_mode \/ ~TextContains(sandbox_logs, "[PREVIEW_URL] https://")
    THEN "Fallback"
    ELSE "Resurrected"

\* Lines 2846-2851
Status ==
    IF \/ fallback_mode
       \/ /\ sandbox_logs # {}
          /\ \/ TextContains(sandbox_logs, "Sandbox Error")
             \/ TextContains(sandbox_logs, "BUILD FAILED")
             \/ TextContains(sandbox_logs, "FATAL ERROR")
    THEN "Fallback"
    ELSE "Resurrected"

\* A result that carries files only when the last attempt succeeded.
ResultEventWithoutPartialResult ==
    [type |-> "result", status |-> Status,
     artifacts |-> IF memory # <<>> /\ memory[Len(memory)] = "failure" THEN <<>> ELSE run_files,
     preview |-> Preview, retry_count |-> retry_count, errors |-> all_errors]

ResultEvent ==
    [type |-> "result", status |-> Status, artifacts |-> run_files,
     preview |-> Preview, retry_count |-> retry_count, errors |-> all_errors]

\* Lines 2853-2864: the final yield, after which the generator is exhausted.
Finish ==
    /\ pc = "finish"
    /\ stream' = Append(stream, ResultEvent)
    /\ pc' = "done"
    /\ UNCHANGED <<plan, fallback_mode, retry_count, sandbox_logs, run_files,
                   all_errors, memory, gen_plans, outcomes>>
    /\ UNCHANGED <<batch_vars, ext_vars>>

ErrorResultEvent ==
    [type |-> "result", status |-> "Error", artifacts |-> <<>>, preview |-> "",
     retry_count |-> 0,
     errors |-> << [attempt |-> 1, type |-> "EXCEPTION",
                    message |-> [text |-> {"str(e)"}, len |-> 100]] >>]

\* The handler's error report without the result line.
ExceptLinesLogOnly == <<LogEvent>>

\* main.py 543-554: the except branch of do_POST
ExceptLines == <<LogEvent, ErrorResultEvent>>

HandlerExcept ==
    /\ pc = "handler_except"
    /\ stream' = stream \o ExceptLines
    /\ pc' = "done"
    /\ UNCHANGED <<plan, fallback_mode, retry_count, sandbox_logs, run_files,
                   all_errors, memory, gen_plans, outcomes>>
    /\ UNCHANGED <<batch_vars, ext_vars>>

Next ==
    \/ DoPost
    \/ DeepScan
    \/ Planning
    \/ Generate
    \/ Execute
    \/ Finish
    \/ HandlerExcept

Spec == Init /\ [][Next]_vars

\* The generator and the handler run on one thread that is never suspended
\* for ever: every blocking call returns.
FairSpec == Spec /\ WF_vars(Next)

(***************************************************************************)
(* Properties of the run                                                   *)
(***************************************************************************)
Last(s) == s[Len(s)]

ResultCount == Cardinality({i \in 1..Len(stream) : stream[i].type = "result"})

Attempts == Len(gen_plans)

AllAttemptsSameSandboxError ==
    /\ outcomes # <<>>
    /\ \A i \in 1..Len(outcomes) :
          outcomes[i].kind = "SANDBOX" /\ outcomes[i].type = outcomes[1].type

\* C4 - retry termination: when the sandbox reports the same detected error
\* on every attempt, the run makes exactly MAX_RETRIES + 1 generate-and-
\* execute attempts and the terminal result lists MAX_RETRIES + 1 errors.
C4_RetryTermination ==
    AllAttemptsSameSandboxError =>
        /\ Attempts <= MAX_RETRIES + 1
        /\ pc \in {"finish", "done"} =>
              /\ Attempts = MAX_RETRIES + 1
              /\ Len(outcomes) = MAX_RETRIES + 1
        /\ pc = "done" => Len(Last(stream).errors) = MAX_RETRIES + 1

C4_Witness ==
    /\ pc = "done"
    /\ AllAttemptsSameSandboxError
    /\ outcomes[1].type = "BACKEND_CRASH"
    /\ Len(Last(stream).errors) = 4

\* C5 - status on exhaustion: when each of the MAX_RETRIES + 1 attempts
\* failed, the terminal result has status "Fallback".
C5_StatusOnExhaustion ==
    ( /\ pc = "done"
      /\ Len(outcomes) = MAX_RETRIES + 1
      /\ \A i \in 1..Len(outcomes) : outcomes[i].kind # "SUCCESS" )
    => Last(stream).status = "Fallback"

\* C6 - first-attempt success: a plan without error marker, a first attempt
\* that parses files and a sandbox log without error pattern give exactly
\* one result event: "Resurrected", those files, retry_count 0, no errors.
C6_FirstAttemptSuccess ==
    ( /\ pc = "done"
      /\ outcomes # <<>>
      /\ ~HasErrorMarker(plan)
      /\ Len(outcomes[1].parsed) >= 1
      /\ outcomes[1].returned # <<>>
      /\ ~_detect_errors(outcomes[1].returned[1]).detected )
    => /\ ResultCount = 1
       /\ Last(stream).status = "Resurrected"
       /\ Last(stream).artifacts = outcomes[1].parsed
       /\ Len(Last(stream).artifacts) >= 1
       /\ Last(stream).retry_count = 0
       /\ Last(stream).errors = <<>>

C6_Witness ==
    /\ pc = "done"
    /\ ~HasErrorMarker(plan)
    /\ Len(outcomes) = 1
    /\ outcomes[1].returned # <<>>
    /\ Len(outcomes[1].parsed) = 2
    /\ Last(stream).status = "Resurrected"
    /\ sandbox_logs = {"E2B Sandbox not available"}

\* C7 - shared retry budget and termination: whatever the mix of failure
\* kinds, a run makes at most MAX_RETRIES + 1 generation attempts, and once
\* in the loop it reaches its terminal result.
C7_SharedBudgetTermination ==
    /\ [](Attempts <= MAX_RETRIES + 1)
    /\ (pc = "generate") ~> (pc = "done" /\ Last(stream).type = "result")

C7_Witness ==
    /\ pc = "done"
    /\ Attempts = MAX_RETRIES + 1
    /\ \E i, j, k \in 1..Len(outcomes) :
          /\ outcomes[i].kind = "GEMINI_API_DOWN"
          /\ outcomes[j].kind = "EXCEPTION"
          /\ outcomes[k].kind = "SANDBOX"

\* C8 - single terminal event: a stream never carries more than one result
\* event and nothing after it; a finished stream carries exactly one; when
\* the generator has raised, it is the handler's result with status "Error".
C8_SingleTerminalEvent ==
    /\ [](/\ ResultCount <= 1
          /\ \A i \in 1..(Len(stream) - 1) : stream[i].type # "result"
          /\ pc = "done" => ResultCount = 1 /\ Last(stream).type = "result")
    /\ [][pc = "handler_except" =>
             /\ Last(stream').type = "result"
             /\ Last(stream').status = "Error"]_vars
    /\ [][pc = "finish" =>
             /\ Last(stream').type = "result"
             /\ Last(stream').status \in {"Resurrected", "Fallback"}]_vars

C8_Witness ==
    /\ pc = "done"
    /\ Last(stream).status = "Error"
    /\ Len(stream) > 2
    /\ ResultCount = 1

\* C9 - AttemptError log: all_errors only grows at its end, by at most one
\* entry per attempt; an attempt starts with as many entries as retry_count;
\* entry i has attempt = i; the terminal result has retry_count entries
\* after a successful last attempt and retry_count + 1 after a failed one.
C9_AttemptErrorLog ==
    /\ [](/\ pc = "generate" => Len(all_errors) = retry_count
          /\ Len(all_errors) <= Attempts
          /\ \A i \in 1..Len(all_errors) : all_errors[i].attempt = i
          /\ (pc = "done" /\ outcomes # <<>>) =>
                Len(Last(stream).errors) =
                    Last(stream).retry_count
                      + (IF Last(outcomes).kind = "SUCCESS" THEN 0 ELSE 1))
    /\ [][/\ IsPrefix(all_errors, all_errors')
          /\ Len(all_errors') <= Len(all_errors) + 1]_vars

C9_Witness ==
    /\ pc = "done"
    /\ outcomes # <<>>
    /\ Last(outcomes).kind = "SUCCESS"
    /\ Last(stream).retry_count = 2
    /\ Len(Last(stream).errors) = 2

ErrorBlocksOf(text) == SelectSeq(text, LAMBDA x : x.seg = "error")

\* C10 - accumulated retry context: attempt 1 generates from the plan text
\* itself; attempt k > 1 from the plan text followed by a context with one
\* block for each of the k-1 errors recorded so far, in attempt order.
C10_AccumulatedRetryContext ==
    \A k \in 1..Len(gen_plans) :
        /\ k = 1 => gen_plans[k] = plan
        /\ k > 1 =>
              /\ IsPrefix(plan, gen_plans[k])
              /\ ErrorBlocksOf(SubSeq(gen_plans[k], 1, Len(plan))) = <<>>
              /\ Len(ErrorBlocksOf(gen_plans[k])) = k - 1
              /\ \A i \in 1..(k - 1) :
                    /\ i <= Len(ErrorBlocksOf(gen_plans[k]))
                    /\ ErrorBlocksOf(gen_plans[k])[i].attempt = i
                    /\ ErrorBlocksOf(gen_plans[k])[i].type = all_errors[i].type
                    /\ ErrorBlocksOf(gen_plans[k])[i].message.text = all_errors[i].message.text

C10_Witness ==
    /\ Len(gen_plans) = MAX_RETRIES + 1
    /\ Len(ErrorBlocksOf(gen_plans[4])) = 3
    /\ all_errors[1].type # all_errors[2].type

(***************************************************************************)
(* SpecGen: one generation attempt of the retry loop: generate_code_batched *)
(* (single-call mode through generate_code, or the batch loop followed by  *)
(* the missing-file recovery) and what process_resurrection_stream does    *)
(* with its outcome.  A generated file is its filename and the number of   *)
(* signature lines extract_batch_summary finds in its content.             *)
(***************************************************************************)
MaxGenChars == 3

\* `if total_files <= 150`
SingleCallMaxFiles == 150

\* `len(still_missing) <= 15`
RecoveryLimit == 15

\* int(self.get_model_max_chars(self.coder_model) * 0.7)
SingleCallLimit(mc) == (mc * 7) \div 10

\* A repository of three directories: one config file, one file in each of
\* two directories.
ThreeDirectoryRepo ==
    << [path |-> <<"package", ".json">>, len |-> 1],
       [path |-> <<"d", "/", "a", ".py">>, len |-> 1],
       [path |-> <<"e", "/", "a", ".py">>, len |-> 1] >>

\* The scanned repositories of the attempt: every run of consecutive files
\* of ThreeDirectoryRepo (the empty repository included), a single root
\* file, and a root file next to a config file.
GenRepos ==
    { SubSeq(ThreeDirectoryRepo, i, j) : i \in 1..3, j \in 0..3 }
    \cup { << [path |-> <<"a", ".py">>, len |-> 1] >>,
           << [path |-> <<"a", ".py">>, len |-> 2],
              [path |-> <<"package", ".json">>, len |-> 1] >> }

\* Plans of the attempt: no batch declaration, or one declared batch.
GenPlanTexts ==
    { <<>>,
      << [kind |-> "header", name |-> <<"A">>, path |-> <<>>],
         [kind |-> "item", name |-> <<>>, path |-> <<"a", ".py">>] >> }

\* File lists a response to the prompt for the files bf can be parsed into:
\* nothing, every file of bf, only the first one, or the first one under
\* its bare file name.
GeneratedChoices(bf) ==
    IF bf = <<>>
    THEN { <<>>, << [filename |-> <<"main", ".py">>, key_lines |-> 0] >> }
    ELSE { <<>>,
           [i \in 1..Len(bf) |-> [filename |-> bf[i].path, key_lines |-> 31]],
           << [filename |-> bf[1].path, key_lines |-> 0] >>,
           << [filename |-> basename(bf[1].path), key_lines |-> 0] >> }

\* Outcomes of one _call_gemini followed by _parse_files_from_response:
\* GeminiAPIError, or a response text (with or without "[ERROR]" in it)
\* and the files the parser finds in it.
CallOutcomes(bf) ==
    { [kind |-> "GeminiAPIError", marker |-> FALSE, parsed |-> <<>>],
      [kind |-> "response", marker |-> TRUE, parsed |-> <<>>] }
    \cup { [kind |-> "response", marker |-> m, parsed |-> fs] :
              m \in BOOLEAN, fs \in GeneratedChoices(bf) \ {<<>>} }
    \cup { [kind |-> "response", marker |-> FALSE, parsed |-> <<>>] }

\* prompts.extract_batch_summary: one section per generated file, with at
\* most 30 signature lines, or the "[config/static file]" note.
extract_batch_summary(generated_files) ==
    [i \in 1..Len(generated_files) |->
        [path |-> generated_files[i].filename,
         key_lines |-> Min(generated_files[i].key_lines, 30),
         static |-> generated_files[i].key_lines = 0]]

SummaryEntry(idx, batch_name, batch_generated) ==
    [batch |-> idx + 1, name |-> batch_name,
     summary |-> extract_batch_summary(batch_generated)]

\* The newest summary put in front of the earlier ones.
AppendSummaryNewestFirst(summaries, idx, batch_name, batch_generated) ==
    IF batch_generated # <<>>
    THEN <<SummaryEntry(idx, batch_name, batch_generated)>> \o summaries
    ELSE summaries

\* Lines 1809-1811
AppendSummary(summaries, idx, batch_name, batch_generated) ==
    IF batch_generated # <<>>
    THEN Append(summaries, SummaryEntry(idx, batch_name, batch_generated))
    ELSE summaries

NoMessage == [text |-> {}, len |-> 0]

BatchFailedMessage ==
    [text |-> {"BATCH GENERATION FAILED:", "No files were generated"}, len |-> 140]

NoFilesGeneratedMessage ==
    [text |-> {"CODE GENERATION FAILED:", "No files were generated"}, len |-> 47]

Raised(kind, message) == [kind |-> kind, files |-> <<>>, message |-> message]

Returned(fs) == [kind |-> "return", files |-> fs, message |-> NoMessage]

\* generate_code, lines 1365-1403
SingleCallResult(out) ==
    IF out.kind = "GeminiAPIError"
    THEN Raised("GeminiAPIError", GeminiAPIErrorMessage)
    ELSE IF out.parsed = <<>>
    THEN Raised("Exception", NoFilesMessage)
    ELSE Returned(out.parsed)

\* generate_code_batched returning an empty file list.
BatchedResultUnchecked(generated) == Returned(generated)

\* generate_code_batched, lines 1899-1910
BatchedResult(generated) ==
    IF generated = <<>>
    THEN Raised("Exception", BatchFailedMessage)
    ELSE Returned(generated)

CallRecord(mode, idx, batch_name, batch_files, summaries, memory_context, out) ==
    [mode |-> mode, batch_index |-> idx, batch_name |-> batch_name,
     batch_files |-> batch_files, summaries |-> summaries,
     memory_context |-> memory_context, outcome |-> out]

InitGen ==
    /\ gpc = "start"
    /\ files \in GenRepos
    /\ plan_lines \in GenPlanTexts
    /\ max_chars \in 2..MaxGenChars
    /\ bpc = "idle"
    /\ in_batches = <<>>
    /\ batches = <<>>
    /\ batch_idx = 0
    /\ all_generated_files = <<>>
    /\ previously_generated_summaries = <<>>
    /\ calls = <<>>
    /\ sleeps = <<>>
    /\ gen_result = NoResult
    /\ attempt_end = NoResult
    /\ RunIdle
    /\ CallIdle
    /\ ParseIdle
    /\ AuxIdle

\* Lines 1704-1725: single-call mode for a small repository, otherwise the
\* files are grouped into batches.
GenStart ==
    /\ gpc = "start"
    /\ IF Len(files) <= SingleCallMaxFiles /\ SumLen(files) < SingleCallLimit(max_chars)
       THEN /\ gpc' = "single"
            /\ UNCHANGED batches
       ELSE /\ batches' = _group_files_into_batches(files, plan_lines, max_chars)
            /\ gpc' = IF batches' = <<>> THEN "recovery" ELSE "batch"
    /\ UNCHANGED <<bpc, files, plan_lines, max_chars, in_batches>>
    /\ UNCHANGED <<batch_idx, all_generated_files, previously_generated_summaries,
                   calls, sleeps, gen_result, attempt_end>>
    /\ UNCHANGED <<run_vars, call_vars, parse_vars, aux_vars>>

\* Line 1717: generate_code
SingleCall ==
    /\ gpc = "single"
    /\ \E out \in CallOutcomes(files) :
          /\ calls' = Append(calls, CallRecord("single", 0, <<>>, files, <<>>, TRUE, out))
          /\ gen_result' = SingleCallResult(out)
          /\ all_generated_files' = out.parsed
    /\ gpc' = "handle"
    /\ UNCHANGED <<batch_idx, previously_generated_summaries, sleeps, attempt_end>>
    /\ UNCHANGED batch_vars
    /\ UNCHANGED <<run_vars, call_vars, parse_vars, aux_vars>>

AfterBatch(idx) == IF idx + 1 < Len(batches) THEN "batch" ELSE "recovery"

\* Lines 1748-1821: one iteration of the batch loop
BatchCall ==
    /\ gpc = "batch"
    /\ LET batch == batches[batch_idx + 1]
       IN  \E out \in CallOutcomes(batch.files) :
              /\ calls' = Append(calls,
                     CallRecord("batch", batch_idx, batch.name, batch.files,
                                previously_generated_summaries, batch_idx = 0, out))
              /\ IF out.kind = "GeminiAPIError"
                 THEN IF batch_idx = 0 /\ Len(batches) = 1
                      THEN /\ gen_result' = Raised("GeminiAPIError", GeminiAPIErrorMessage)
                           /\ gpc' = "handle"
                           /\ UNCHANGED <<batch_idx, all_generated_files,
                                          previously_generated_summaries, sleeps>>
                      ELSE /\ sleeps' = Append(sleeps, 10)
                           /\ batch_idx' = batch_idx + 1
                           /\ gpc' = AfterBatch(batch_idx)
                           /\ UNCHANGED <<all_generated_files,
                                          previously_generated_summaries, gen_result>>
                 ELSE IF out.marker
                 THEN /\ batch_idx' = batch_idx + 1
                      /\ gpc' = AfterBatch(batch_idx)
                      /\ UNCHANGED <<all_generated_files, previously_generated_summaries,
                                     sleeps, gen_result>>
                 ELSE /\ all_generated_files' = all_generated_files \o out.parsed
                      /\ previously_generated_summaries' =
                             AppendSummary(previously_generated_summaries, batch_idx,
                                           batch.name, out.parsed)
                      /\ sleeps' = IF batch_idx < Len(batches) - 1
                                   THEN Append(sleeps, 3) ELSE sleeps
                      /\ batch_idx' = batch_idx + 1
                      /\ gpc' = AfterBatch(batch_idx)
                      /\ UNCHANGED gen_result
    /\ UNCHANGED attempt_end
    /\ UNCHANGED batch_vars
    /\ UNCHANGED <<run_vars, call_vars, parse_vars, aux_vars>>

generated_paths(generated) == {f.filename : f \in Range(generated)}

expected_paths(fs) == {f.path : f \in Range(fs)}

\* Lines 1829-1842: the missing paths no generated file shares its
\* basename with.
still_missing(fs, generated) ==
    { mp \in expected_paths(fs) \ generated_paths(generated) :
         ~ \E gp \in generated_paths(generated) : basename(gp) = basename(mp) }

\* Line 1854
missing_file_dicts(fs, generated) ==
    SelectSeq(fs, LAMBDA f : f.path \in still_missing(fs, generated))

\* Line 1844
RecoveryDue(fs, generated) ==
    /\ still_missing(fs, generated) # {}
    /\ Cardinality(still_missing(fs, generated)) <= RecoveryLimit
    /\ missing_file_dicts(fs, generated) # <<>>

\* Lines 1827-1910: the recovery call for the missing files, then the
\* result of generate_code_batched.
Recovery ==
    /\ gpc = "recovery"
    /\ IF RecoveryDue(files, all_generated_files)
       THEN \E out \in CallOutcomes(missing_file_dicts(files, all_generated_files)) :
               /\ sleeps' = Append(sleeps, 3)
               /\ calls' = Append(calls,
                      CallRecord("recovery", Len(batches), <<"Recovery - Missing Files">>,
                                 missing_file_dicts(files, all_generated_files),
                                 previously_generated_summaries, FALSE, out))
               /\ all_generated_files' =
                      IF out.kind = "response" /\ ~out.marker
                      THEN all_generated_files \o out.parsed
                      ELSE all_generated_files
       ELSE UNCHANGED <<sleeps, calls, all_generated_files>>
    /\ gen_result' = BatchedResult(all_generated_files')
    /\ gpc' = "handle"
    /\ UNCHANGED <<batch_idx, previously_generated_summaries, attempt_end>>
    /\ UNCHANGED batch_vars
    /\ UNCHANGED <<run_vars, call_vars, parse_vars, aux_vars>>

ErrorLogOnly(fs) == Len(fs) = 1 /\ fs[1].filename = <<"error", ".log">>

FailedAttempt(rc, type, message, wait) ==
    /\ attempt_end' = [kind |-> "failed", attempt |-> AttemptNumber(rc), type |-> type,
                       message |-> message, retried |-> CanRetry(rc),
                       sandbox_files |-> <<>>]
    /\ sleeps' = IF CanRetry(rc) /\ wait > 0 THEN Append(sleeps, wait) ELSE sleeps

\* Lines 2729-2757 and the except branches 2785-2825, for the attempt made
\* with retry_count = rc.
AttemptEnd ==
    /\ gpc = "handle"
    /\ \E rc \in 0..MAX_RETRIES :
          IF gen_result.kind = "GeminiAPIError"
          THEN FailedAttempt(rc, "GEMINI_API_DOWN", gen_result.message, 15 * (rc + 1))
          ELSE IF gen_result.kind = "Exception"
          THEN FailedAttempt(rc, "EXCEPTION", gen_result.message, 3)
          ELSE IF gen_result.files = <<>>
          THEN FailedAttempt(rc, "EXCEPTION", NoFilesGeneratedMessage, 3)
          ELSE IF ErrorLogOnly(gen_result.files)
          THEN FailedAttempt(rc, "EXCEPTION", OnlyErrorLogMessage, 3)
          ELSE /\ attempt_end' = [kind |-> "execute", attempt |-> AttemptNumber(rc),
                                  type |-> "", message |-> NoMessage, retried |-> FALSE,
                                  sandbox_files |-> gen_result.files]
               /\ UNCHANGED sleeps
    /\ gpc' = "done"
    /\ UNCHANGED <<batch_idx, all_generated_files, previously_generated_summaries,
                   calls, gen_result>>
    /\ UNCHANGED batch_vars
    /\ UNCHANGED <<run_vars, call_vars, parse_vars, aux_vars>>

NextGen ==
    \/ GenStart
    \/ SingleCall
    \/ BatchCall
    \/ Recovery
    \/ AttemptEnd

SpecGen == InitGen /\ [][NextGen]_vars

(***************************************************************************)
(* Properties of one generation attempt                                    *)
(***************************************************************************)
BatchCalls == SelectSeq(calls, LAMBDA c : c.mode = "batch")

RecoveryCalls == SelectSeq(calls, LAMBDA c : c.mode = "recovery")

\* The files of a call that generate_code_batched keeps.
Kept(c) == IF c.outcome.kind = "response" /\ ~c.outcome.marker THEN c.outcome.parsed ELSE <<>>

\* C11 - empty generation is a hard attempt failure: an attempt that
\* recovers no file over all its generation calls (single call, batches and
\* recovery call) raises and is recorded as a failed attempt;
\* execute_in_sandbox never receives an empty file set and such an attempt
\* never counts as a success.
C11_EmptyGenerationFails ==
    /\ (gpc \in {"handle", "done"} /\ all_generated_files = <<>>) =>
           gen_result.kind \in {"GeminiAPIError", "Exception"}
    /\ (gpc = "done" /\ all_generated_files = <<>>) =>
           /\ attempt_end.kind = "failed"
           /\ attempt_end.type \in {"GEMINI_API_DOWN", "EXCEPTION"}
           /\ attempt_end.sandbox_files = <<>>
    /\ (gpc = "done" /\ attempt_end.kind = "execute") =>
           /\ attempt_end.sandbox_files # <<>>
           /\ attempt_end.sandbox_files = all_generated_files

\* Three batches and a recovery call that all came back without a file.
C11_Witness ==
    /\ gpc = "done"
    /\ Len(BatchCalls) = 3
    /\ Len(RecoveryCalls) = 1
    /\ \A i \in 1..Len(calls) : calls[i].outcome.kind = "response"
    /\ all_generated_files = <<>>
    /\ gen_result = Raised("Exception", BatchFailedMessage)
    /\ attempt_end.type = "EXCEPTION"

AllCallsExhausted ==
    /\ calls # <<>>
    /\ \A i \in 1..Len(calls) : calls[i].outcome.kind = "GeminiAPIError"

\* C12 - backend outage is distinguished from content failure: when every
\* generation call of an attempt (single call or batches) ends with the
\* model chain exhausted, the attempt is recorded as GEMINI_API_DOWN and the
\* orchestrator waits 15 s x attempt number before the next attempt; any
\* other failed generation gets another type and no such wait.
C12_OutageDistinguished ==
    (gpc = "done" /\ attempt_end.kind = "failed") =>
        IF AllCallsExhausted
        THEN /\ attempt_end.type = "GEMINI_API_DOWN"
             /\ attempt_end.retried => Last(sleeps) = 15 * attempt_end.attempt
        ELSE /\ attempt_end.type # "GEMINI_API_DOWN"
             /\ attempt_end.retried => Last(sleeps) = 3

RECURSIVE SummariesUpTo(_, _)
SummariesUpTo(cs, n) ==
    IF n = 0 THEN <<>>
    ELSE SummariesUpTo(cs, n - 1)
         \o (IF Kept(cs[n]) # <<>>
             THEN << [batch |-> n, name |-> cs[n].batch_name,
                      summary |-> extract_batch_summary(Kept(cs[n]))] >>
             ELSE <<>>)

\* C13 - batch ordering and summary threading: the batches are generated in
\* the planner's order, and the previously-generated-summaries context of
\* batch k is the summaries of the files generated by batches 1..k-1, in
\* that order, with nothing from batch k or a later batch.
C13_SummaryThreading ==
    \A k \in 1..Len(BatchCalls) :
        /\ k <= Len(batches)
        /\ BatchCalls[k].batch_index = k - 1
        /\ BatchCalls[k].batch_name = batches[k].name
        /\ BatchCalls[k].batch_files = batches[k].files
        /\ BatchCalls[k].summaries = SummariesUpTo(BatchCalls, k - 1)
        /\ \A i \in 1..Len(BatchCalls[k].summaries) : BatchCalls[k].summaries[i].batch < k

\* The third batch is generated with the summaries of the first two.
C13_Witness ==
    /\ Len(BatchCalls) = 3
    /\ Len(BatchCalls[3].summaries) = 2
    /\ BatchCalls[3].summaries[1].batch = 1
    /\ BatchCalls[3].summaries[1].name = <<"Config & Dependencies">>
    /\ BatchCalls[3].summaries[2].batch = 2
    /\ BatchCalls[2].summaries = <<BatchCalls[3].summaries[1]>>

RECURSIVE KeptPaths(_)
KeptPaths(cs) ==
    IF cs = <<>> THEN {}
    ELSE generated_paths(Kept(Head(cs))) \cup KeptPaths(Tail(cs))

\* Expected paths that are not among the paths generated by the batches.
Gap == expected_paths(files) \ KeptPaths(BatchCalls)

\* C14 - missing-file recovery: with G the expected paths that are not
\* among the generated paths after all batches, 1 <= |G| <= 15 gives exactly
\* one recovery call whose batch is exactly the files of G, and |G| = 0 or
\* |G| > 15 gives no recovery call.
C14_MissingFileRecovery ==
    ( /\ gpc \in {"handle", "done"}
      /\ BatchCalls # <<>>
      /\ gen_result.kind # "GeminiAPIError" )
    => IF 1 <= Cardinality(Gap) /\ Cardinality(Gap) <= RecoveryLimit
       THEN /\ Len(RecoveryCalls) = 1
            /\ expected_paths(RecoveryCalls[1].batch_files) = Gap
            /\ Len(RecoveryCalls[1].batch_files) = Cardinality(Gap)
       ELSE RecoveryCalls = <<>>

(***************************************************************************)
(* SpecCall: one call of LazarusEngine._call_gemini.  A response is its    *)
(* HTTP status and what its body holds; status 0 stands for a request that *)
(* raised instead of returning (body "Timeout" or "ConnectionError").      *)
(***************************************************************************)
ModelArgs ==
    { "None", "gemini-3-flash-preview", "gemini-3-pro-preview", "gemini-2.0-flash-exp",
      "gemini-2.0-flash", "gemini-1.5-flash", "gemini-1.5-pro", "custom-model" }

\* `model or "gemini-3-flash-preview"`
TargetModel(model) == IF model = "None" THEN "gemini-3-flash-preview" ELSE model

\* Lines 955-967
FallbackChain(target_model) ==
    CASE target_model = "gemini-3-flash-preview" ->
            <<"gemini-2.0-flash", "gemini-1.5-flash">>
      [] target_model = "gemini-3-pro-preview" ->
            <<"gemini-3-flash-preview", "gemini-2.0-flash", "gemini-1.5-pro">>
      [] target_model \in {"gemini-2.0-flash-exp", "gemini-2.0-flash"} ->
            <<"gemini-1.5-flash", "gemini-1.5-pro">>
      [] target_model = "gemini-1.5-flash" ->
            <<"gemini-2.0-flash", "gemini-1.5-pro">>
      [] target_model = "gemini-1.5-pro" ->
            <<"gemini-2.0-flash", "gemini-1.5-flash">>
      [] OTHER ->
            <<"gemini-3-flash-preview", "gemini-2.0-flash", "gemini-1.5-flash">>

\* Lines 970-971
AllModels(target_model) ==
    <<target_model>> \o SelectSeq(FallbackChain(target_model), LAMBDA m : m # target_model)

\* One request more per model.
max_retries_plus_one == 4 + 1

\* `max_retries = 4`
max_retries == 4

\* What requests.post gives back, or what it raises.
Responses ==
    { [status |-> 200, body |-> "text"],
      [status |-> 200, body |-> "blocked"],
      [status |-> 200, body |-> "no candidates"],
      [status |-> 200, body |-> "bad structure"],
      [status |-> 200, body |-> "not json"],
      [status |-> 429, body |-> "error"],
      [status |-> 500, body |-> "error"],
      [status |-> 502, body |-> "error"],
      [status |-> 503, body |-> "error"],
      [status |-> 400, body |-> "error"],
      [status |-> 403, body |-> "error"],
      [status |-> 0, body |-> "Timeout"],
      [status |-> 0, body |-> "ConnectionError"] }

\* The branches that return from _call_gemini (lines 1032 and 1043).
Returns(r) == r.status = 200 /\ r.body \in {"text", "blocked"}

\* Only a rate-limit response is sent again to the same model.
ContinuesOnlyOn429(r) == r.status = 429

\* The branches that end in `continue` of the retry loop: 429, 500 or 503,
\* and requests.exceptions.Timeout.
Continues(r) ==
    \/ r.status = 429
    \/ r.status \in {500, 503}
    \/ r.status = 0 /\ r.body = "Timeout"

\* The key test skipped.
KeyMissingIgnored(key) == FALSE

\* `if not self.api_key`
KeyMissing(key) == ~key

ReturnedText(r) ==
    [kind |-> "return",
     text |-> IF r.body = "blocked" THEN "[ERROR] Prompt blocked by safety filter" ELSE "text",
     models_tried |-> <<>>]

GeminiAPIErrorOf(models) ==
    [kind |-> "GeminiAPIError", text |-> "All Gemini models failed after retries",
     models_tried |-> models]

ValueErrorKeyMissing ==
    [kind |-> "ValueError", text |-> "GEMINI_API_KEY is missing.", models_tried |-> <<>>]

InitCall ==
    /\ cpc = "call"
    /\ api_key \in BOOLEAN
    /\ model_arg \in ModelArgs
    /\ all_models = <<>>
    /\ model_idx = 0
    /\ attempt = 0
    /\ last_request = NoRequest
    /\ request_log = <<>>
    /\ call_result = NoResult
    /\ RunIdle
    /\ BatchIdle
    /\ GenIdle
    /\ ParseIdle
    /\ AuxIdle

\* Lines 943-980: the key test and the model chain
CallGemini ==
    /\ cpc = "call"
    /\ IF KeyMissing(api_key)
       THEN /\ call_result' = ValueErrorKeyMissing
            /\ cpc' = "done"
            /\ UNCHANGED all_models
       ELSE /\ all_models' = AllModels(TargetModel(model_arg))
            /\ cpc' = "request"
            /\ UNCHANGED call_result
    /\ UNCHANGED <<api_key, model_arg, model_idx, attempt, last_request, request_log>>
    /\ UNCHANGED <<run_vars, batch_vars, gen_vars, parse_vars, aux_vars>>

\* One request more in the log, under its model.
Logged(log, model) ==
    IF log # <<>> /\ log[Len(log)].model = model
    THEN [log EXCEPT ![Len(log)].count = @ + 1]
    ELSE Append(log, [model |-> model, count |-> 1])

\* Leaving the retry loop of the current model: the next model of the
\* chain, or GeminiAPIError after the last one (lines 1109-1123).
NextModel ==
    IF model_idx + 1 < Len(all_models)
    THEN /\ model_idx' = model_idx + 1
         /\ attempt' = 0
         /\ cpc' = "request"
         /\ UNCHANGED call_result
    ELSE /\ call_result' = GeminiAPIErrorOf(all_models)
         /\ cpc' = "done"
         /\ UNCHANGED <<model_idx, attempt>>

\* Lines 1005-1108: one requests.post and the branch its response takes
Request ==
    /\ cpc = "request"
    /\ \E r \in Responses :
          /\ last_request' = [model_idx |-> model_idx, attempt |-> attempt,
                              status |-> r.status, body |-> r.body]
          /\ request_log' = Logged(request_log, all_models[model_idx + 1])
          /\ IF Returns(r)
             THEN /\ call_result' = ReturnedText(r)
                  /\ cpc' = "done"
                  /\ UNCHANGED <<model_idx, attempt>>
             ELSE IF Continues(r) /\ attempt + 1 < max_retries
             THEN /\ attempt' = attempt + 1
                  /\ UNCHANGED <<model_idx, cpc, call_result>>
             ELSE NextModel
    /\ UNCHANGED <<api_key, model_arg, all_models>>
    /\ UNCHANGED <<run_vars, batch_vars, gen_vars, parse_vars, aux_vars>>

NextCall ==
    \/ CallGemini
    \/ Request

SpecCall == InitCall /\ [][NextCall]_vars

\* Every request returns or raises (timeout = 300): the call is never
\* suspended for ever.
FairSpecCall == SpecCall /\ WF_vars(NextCall)

(***************************************************************************)
(* Properties of one _call_gemini call                                     *)
(***************************************************************************)
RECURSIVE RequestCount(_)
RequestCount(log) == IF log = <<>> THEN 0 ELSE Head(log).count + RequestCount(Tail(log))

\* C15 - chain exhaustion: the requests go to the target model first and
\* then to the fallback models in their fixed order, no model is used twice,
\* none gets more than 4 requests; GeminiAPIError is raised only after every
\* model of the chain got a request, with models_tried the whole chain in
\* order; the call ends (text or exception) after at most 4 x |chain|
\* requests.
C15_ChainExhaustion ==
    /\ [](/\ \A i \in 1..Len(request_log) :
                /\ i <= Len(all_models)
                /\ request_log[i].model = all_models[i]
                /\ request_log[i].count <= 4
          /\ \A i, j \in 1..Len(all_models) : i # j => all_models[i] # all_models[j]
          /\ all_models # <<>> =>
                /\ all_models[1] = TargetModel(model_arg)
                /\ Tail(all_models) = FallbackChain(TargetModel(model_arg))
          /\ RequestCount(request_log) <= 4 * Len(all_models)
          /\ call_result.kind = "GeminiAPIError" =>
                /\ Len(request_log) = Len(all_models)
                /\ call_result.models_tried = all_models
          /\ cpc = "done" => call_result.kind \in {"return", "GeminiAPIError", "ValueError"})
    /\ <>(cpc = "done")

\* A chain of four models exhausted by sixteen requests.
C15_Witness ==
    /\ cpc = "done"
    /\ call_result.kind = "GeminiAPIError"
    /\ call_result.models_tried =
          <<"gemini-3-pro-preview", "gemini-3-flash-preview", "gemini-2.0-flash",
            "gemini-1.5-pro">>
    /\ RequestCount(request_log) = 16

\* The request after r, when r is an error that is retried in place: the
\* same model again while it has requests left, then the next model, and an
\* exception only out of the last request to the last model.
RetriedInPlace ==
    IF last_request.attempt + 1 < 4
    THEN /\ cpc = "request"
         /\ model_idx = last_request.model_idx
         /\ attempt = last_request.attempt + 1
    ELSE IF cpc = "request"
    THEN /\ model_idx = last_request.model_idx + 1
         /\ attempt = 0
    ELSE /\ call_result.kind = "GeminiAPIError"
         /\ last_request.model_idx + 1 = Len(all_models)

\* C16 - transient errors are retried in place: a 429 response, any 5xx
\* response and a request timeout are each retried against the same model
\* until its 4 requests are used up, before the next model is tried, and
\* the caller sees none of them unless the whole chain is exhausted.
C16_TransientRetriedInPlace ==
    ( \/ last_request.status = 429
      \/ last_request.status \in 500..599
      \/ last_request.status = 0 /\ last_request.body = "Timeout" )
    => RetriedInPlace

\* C16 as amended - of the 5xx responses, those retried in place are 500 and
\* 503: a 429, 500 or 503 response and a request timeout are each retried
\* against the same model until its 4 requests are used up, before the next
\* model is tried, and the caller sees none of them unless the whole chain
\* is exhausted.
C16_Amended ==
    ( \/ last_request.status = 429
      \/ last_request.status \in {500, 503}
      \/ last_request.status = 0 /\ last_request.body = "Timeout" )
    => RetriedInPlace

\* A 503 on the third request to the first fallback model, answered by a
\* fourth request to it.
C16_Witness ==
    /\ cpc = "request"
    /\ last_request.status = 503
    /\ last_request.model_idx = 1
    /\ last_request.attempt = 2
    /\ model_idx = 1
    /\ attempt = 3

\* C17 - missing LLM key: without an API key _call_gemini raises the
\* configuration error at once: no request is sent, no model chain is
\* walked, nothing is retried.
C17_MissingKey ==
    /\ (~api_key /\ cpc # "call") =>
           /\ cpc = "done"
           /\ call_result = ValueErrorKeyMissing
           /\ request_log = <<>>
           /\ last_request = NoRequest
           /\ all_models = <<>>
    /\ (api_key /\ cpc = "done") => call_result.kind # "ValueError"

C17_Witness ==
    /\ cpc = "done"
    /\ ~api_key
    /\ model_arg = "gemini-3-pro-preview"
    /\ call_result.kind = "ValueError"
    /\ request_log = <<>>

(***************************************************************************)
(* SpecParse: LazarusEngine._parse_files_from_response on a response made  *)
(* of file blocks.  A block is laid out as                                 *)
(*     <opening tag> NL <content line> NL ... <closing fragment> NL        *)
(* and is described by                                                     *)
(*   open    : "dq"         <file path="p">                                *)
(*             "sq"         <file path='p'>                                *)
(*             "dq_spaced"  <file path = "p">                              *)
(*             "sq_spaced"  <file path = 'p'>                              *)
(*   path    : the text between the quotes, a token sequence in which " "  *)
(*             is white space                                              *)
(*   content : the lines between the tags; " " is a line of white space,   *)
(*             "FENCE" a line of three backquotes, "FENCE py" such a line  *)
(*             followed by a word (an info string of word characters),     *)
(*             "FENCE c++" one followed by an info string with other       *)
(*             characters, "x" and "y" are code lines                      *)
(*   close   : "closed" </file>, "close_spaced" </file >, "truncated"      *)
(*             </file, "none" (no closing fragment)                        *)
(***************************************************************************)
MaxBlocks == 2

BlockStyles ==
    { [open |-> "dq", close |-> "closed"],
      [open |-> "dq", close |-> "none"],
      [open |-> "dq", close |-> "truncated"],
      [open |-> "sq", close |-> "closed"],
      [open |-> "dq_spaced", close |-> "close_spaced"],
      [open |-> "sq_spaced", close |-> "closed"],
      [open |-> "sq_spaced", close |-> "none"] }

BlockBodies ==
    { [path |-> <<"a">>, content |-> <<"x">>],
      [path |-> <<"a">>, content |-> <<"y">>],
      [path |-> <<"a">>, content |-> <<>>],
      [path |-> <<"a">>, content |-> <<" ", "x", " ">>],
      [path |-> <<"a">>, content |-> <<"FENCE py", "x", "FENCE">>],
      [path |-> <<" ", "a">>, content |-> <<"y">>],
      [path |-> <<" ">>, content |-> <<"x">>],
      [path |-> <<"b">>, content |-> <<"y">>],
      [path |-> <<"b">>, content |-> <<"FENCE c++", "y", "FENCE">>],
      [path |-> <<"b">>, content |-> <<"FENCE py", "FENCE">>] }

FileBlocks ==
    { [open |-> s.open, path |-> b.path, content |-> b.content, close |-> s.close] :
         s \in BlockStyles, b \in BlockBodies }

ParserResponses == SeqsUpTo(FileBlocks, MaxBlocks)

\* str.strip() on a token sequence
RECURSIVE lstrip(_)
lstrip(s) == IF s # <<>> /\ Head(s) = " " THEN lstrip(Tail(s)) ELSE s

RECURSIVE rstrip(_)
rstrip(s) ==
    IF s # <<>> /\ s[Len(s)] = " " THEN rstrip(SubSeq(s, 1, Len(s) - 1)) ELSE s

strip(s) == rstrip(lstrip(s))

\* re.sub(r'^```\w*\n', '', c): a first line made of ``` and word
\* characters, followed by another line, is dropped.
StripLeadingFence(c) ==
    IF Len(c) >= 2 /\ c[1] \in {"FENCE", "FENCE py"} THEN Tail(c) ELSE c

\* re.sub(r'\n```\s*$', '', c): a last line ```, after another line, is
\* dropped.
StripTrailingFence(c) ==
    IF Len(c) >= 2 /\ c[Len(c)] = "FENCE" THEN SubSeq(c, 1, Len(c) - 1) ELSE c

\* Lines 1143-1148
_clean_content(raw) == StripTrailingFence(StripLeadingFence(strip(raw)))

\* The text of a closing fragment, as a line.
CloserLine(close) ==
    CASE close = "closed" -> <<"</file>">>
      [] close = "close_spaced" -> <<"</file >">>
      [] close = "truncated" -> <<"</file">>
      [] OTHER -> <<>>

\* The text of an opening tag, as a line of a content it ended up in.
TagLine == "<file path>"

\* First block at or after i whose closing fragment the pattern accepts.
FirstClosed(blocks, i, closes) ==
    IF \E j \in i..Len(blocks) : blocks[j].close \in closes
    THEN CHOOSE j \in i..Len(blocks) :
            /\ blocks[j].close \in closes
            /\ \A k \in i..(j - 1) : blocks[k].close \notin closes
    ELSE 0

\* Group 2 of a match that starts at the opening tag of block i and ends at
\* the closing tag of block j: everything in between, tags included.
RECURSIVE Between(_, _, _)
Between(blocks, i, j) ==
    IF i = j THEN blocks[i].content
    ELSE blocks[i].content \o CloserLine(blocks[i].close) \o <<TagLine>>
         \o Between(blocks, i + 1, j)

\* re.findall of a pattern `<opening tag>(.*?)<closing tag>` with re.DOTALL:
\* the matches from block i on, left to right, without overlap.
RECURSIVE FindAll(_, _, _, _)
FindAll(blocks, i, opens, closes) ==
    IF i > Len(blocks) \/ FirstClosed(blocks, i, closes) = 0
    THEN <<>>
    ELSE IF blocks[i].open \notin opens
    THEN FindAll(blocks, i + 1, opens, closes)
    ELSE LET j == FirstClosed(blocks, i, closes)
         IN  << [path |-> blocks[i].path, content |-> Between(blocks, i, j)] >>
             \o FindAll(blocks, j + 1, opens, closes)

\* `if fp not in seen_paths: files.append(...); seen_paths.add(fp)`
AddFile(fs, fp, content) ==
    IF \E k \in 1..Len(fs) : fs[k].filename = fp
    THEN fs
    ELSE Append(fs, [filename |-> fp, content |-> _clean_content(content)])

\* The loop over the matches of strategies 1 to 3.
RECURSIVE Collect(_, _)
Collect(matches, fs) ==
    IF matches = <<>> THEN fs
    ELSE LET fp == strip(Head(matches).path)
         IN  Collect(Tail(matches),
                     IF fp # <<>> THEN AddFile(fs, fp, Head(matches).content) ELSE fs)

Strategy1(blocks) == Collect(FindAll(blocks, 1, {"dq"}, {"closed"}), <<>>)

Strategy2(blocks) == Collect(FindAll(blocks, 1, {"dq", "sq"}, {"closed"}), <<>>)

Strategy3(blocks) ==
    Collect(FindAll(blocks, 1, {"dq", "dq_spaced"}, {"closed", "close_spaced"}), <<>>)

\* response.split('\n'): the lines of the response, each one an opening tag
\* (the start pattern of line 1189 matches all four styles), a closing
\* fragment (it contains '</file') or a content line.
RECURSIVE ContentLines(_)
ContentLines(c) ==
    IF c = <<>> THEN <<>>
    ELSE << [kind |-> "text", path |-> <<>>, text |-> Head(c)] >> \o ContentLines(Tail(c))

BlockLines(b) ==
    << [kind |-> "start", path |-> b.path, text |-> TagLine] >>
    \o ContentLines(b.content)
    \o (IF b.close = "none" THEN <<>>
        ELSE << [kind |-> "close", path |-> <<>>, text |-> CloserLine(b.close)[1]] >>)

RECURSIVE ResponseLines(_)
ResponseLines(blocks) ==
    IF blocks = <<>> THEN <<>>
    ELSE BlockLines(Head(blocks)) \o ResponseLines(Tail(blocks))

\* The state of the loop of strategy 4.
NotInFile(fs) ==
    [files |-> fs, in_file |-> FALSE, current_path |-> <<>>, current_content |-> <<>>]

\* Lines 1190-1203: an opening tag saves the previous file when it has
\* content, and starts a new one (nothing follows the tag on its line).
StartLine(st, line) ==
    [files |-> IF st.in_file /\ st.current_path # <<>> /\ st.current_content # <<>>
               THEN AddFile(st.files, strip(st.current_path), st.current_content)
               ELSE st.files,
     in_file |-> TRUE,
     current_path |-> line.path,
     current_content |-> <<>>]

\* Lines 1205-1216: a closing fragment saves the current file, whatever its
\* content (nothing precedes the fragment on its line).
CloseLine(st) ==
    NotInFile(AddFile(st.files, strip(st.current_path), st.current_content))

\* Lines 1188-1219
RECURSIVE StateMachine(_, _)
StateMachine(lines, st) ==
    IF lines = <<>> THEN st
    ELSE LET line == Head(lines)
         IN  StateMachine(Tail(lines),
                CASE line.kind = "start" -> StartLine(st, line)
                  [] line.kind = "close" /\ st.in_file -> CloseLine(st)
                  [] line.kind = "text" /\ st.in_file ->
                        [st EXCEPT !.current_content = Append(@, line.text)]
                  [] OTHER -> st)

\* Lines 1183-1226
Strategy4(blocks) ==
    LET st == StateMachine(ResponseLines(blocks), NotInFile(<<>>))
    IN  IF st.in_file /\ st.current_path # <<>> /\ st.current_content # <<>>
        THEN AddFile(st.files, strip(st.current_path), st.current_content)
        ELSE st.files

\* The whitespace-tolerant pattern is tried before the flexible quotes.
StrategyUsedThreeBeforeTwo(blocks) ==
    CASE Strategy1(blocks) # <<>> -> 1
      [] Strategy3(blocks) # <<>> -> 3
      [] Strategy2(blocks) # <<>> -> 2
      [] OTHER -> 4

\* The strategy whose result is returned: each one is tried only if the
\* ones before it found no file.
StrategyUsed(blocks) ==
    CASE Strategy1(blocks) # <<>> -> 1
      [] Strategy2(blocks) # <<>> -> 2
      [] Strategy3(blocks) # <<>> -> 3
      [] OTHER -> 4

_parse_files_from_response(blocks) ==
    CASE StrategyUsed(blocks) = 1 -> Strategy1(blocks)
      [] StrategyUsed(blocks) = 2 -> Strategy2(blocks)
      [] StrategyUsed(blocks) = 3 -> Strategy3(blocks)
      [] OTHER -> Strategy4(blocks)

InitParse ==
    /\ RunIdle
    /\ BatchIdle
    /\ GenIdle
    /\ CallIdle
    /\ AuxIdle
    /\ ppc = "start"
    /\ response \in ParserResponses
    /\ parsed_files = <<>>
    /\ strategy = 0

ParseFilesFromResponse ==
    /\ ppc = "start"
    /\ parsed_files' = _parse_files_from_response(response)
    /\ strategy' = StrategyUsed(response)
    /\ ppc' = "done"
    /\ UNCHANGED response
    /\ UNCHANGED <<run_vars, batch_vars, gen_vars, call_vars, aux_vars>>

NextParse == ParseFilesFromResponse

SpecParse == InitParse /\ [][NextParse]_vars

(***************************************************************************)
(* Properties of SpecParse                                                 *)
(***************************************************************************)
\* A response of blocks <file path="p">content</file> whose paths are, once
\* trimmed, non-empty and pairwise distinct.
WellFormedResponse(blocks) ==
    /\ \A i \in 1..Len(blocks) :
          /\ blocks[i].open = "dq"
          /\ blocks[i].close = "closed"
          /\ strip(blocks[i].path) # <<>>
    /\ \A i, j \in 1..Len(blocks) :
          strip(blocks[i].path) = strip(blocks[j].path) => i = j

IsFenceLine(l) == l \in {"FENCE", "FENCE py", "FENCE c++"}

\* A content without its surrounding white space and without the fence that
\* encloses it: an opening fence line, with or without an info string, and a
\* closing fence line.
WithoutEnclosingFence(c) ==
    LET s == strip(c)
    IN  IF Len(s) >= 2 /\ IsFenceLine(s[1]) /\ s[Len(s)] = "FENCE"
        THEN SubSeq(s, 2, Len(s) - 1)
        ELSE s

\* C18. Parser round trip: for a well-formed response of N blocks
\* <file path="p">content</file> with pairwise distinct non-empty paths (read
\* here as distinct and non-empty once trimmed), _parse_files_from_response
\* returns exactly N records, in response order, whose paths are the trimmed
\* paths and whose contents are the block contents without surrounding white
\* space and without an enclosing markdown fence.
C18_ParserRoundTrip ==
    (ppc = "done" /\ WellFormedResponse(response)) =>
       /\ Len(parsed_files) = Len(response)
       /\ \A i \in 1..Len(response) :
             /\ parsed_files[i].filename = strip(response[i].path)
             /\ parsed_files[i].content = WithoutEnclosingFence(response[i].content)

\* A block whose opening tag is well formed: the standard double-quoted tag
\* with a path that is not blank, in front of a content that is not empty.
WellFormedOpening(b) ==
    /\ b.open = "dq"
    /\ strip(b.path) # <<>>
    /\ strip(b.content) # <<>>

\* C19. Malformed-response recovery: in a response where some blocks are
\* malformed (no closing tag, or single-quoted beside double-quoted paths),
\* _parse_files_from_response still returns a record for every block whose
\* opening tag is well formed.
C19_MalformedRecovery ==
    ppc = "done" =>
       \A i \in 1..Len(response) :
          WellFormedOpening(response[i]) =>
             \E k \in 1..Len(parsed_files) :
                parsed_files[k].filename = strip(response[i].path)

\* The first block of the response with the trimmed path fp.
FirstOccurrence(blocks, fp) ==
    CHOOSE i \in 1..Len(blocks) :
       /\ strip(blocks[i].path) = fp
       /\ \A j \in 1..(i - 1) : strip(blocks[j].path) # fp

\* The trimmed non-empty paths that several blocks of the response have.
RepeatedPaths(blocks) ==
    { strip(blocks[i].path) : i \in { n \in 1..Len(blocks) :
         /\ strip(blocks[n].path) # <<>>
         /\ \E m \in 1..Len(blocks) :
               m # n /\ strip(blocks[m].path) = strip(blocks[n].path) } }

\* C20. Parser deduplication: when a response has several blocks with the
\* same path, _parse_files_from_response returns exactly one record for that
\* path, and its content is that of the first occurrence, whichever of the
\* four strategies produced the result.
C20_ParserDeduplication ==
    ppc = "done" =>
       \A fp \in RepeatedPaths(response) :
          /\ Cardinality({ k \in 1..Len(parsed_files) : parsed_files[k].filename = fp }) = 1
          /\ \A k \in 1..Len(parsed_files) :
                parsed_files[k].filename = fp =>
                   parsed_files[k].content =
                      _clean_content(response[FirstOccurrence(response, fp)].content)

\* The outputs of the four strategies, each run on its own.
StrategyOutputs(blocks) ==
    << Strategy1(blocks), Strategy2(blocks), Strategy3(blocks), Strategy4(blocks) >>

\* C21. Parser cascade: the strategies (strict tag, flexible quotes,
\* whitespace-tolerant, line state machine) are tried in that order, one is
\* attempted only if every earlier one recovered no file, and the result is
\* the output of the first strategy that recovers a file, or the empty list
\* when none does.
C21_ParserCascade ==
    ppc = "done" =>
       LET out == StrategyOutputs(response)
       IN  /\ strategy \in 1..4
           /\ \A n \in 1..(strategy - 1) : out[n] = <<>>
           /\ strategy < 4 => out[strategy] # <<>>
           /\ parsed_files = out[strategy]
           /\ (\A n \in 1..4 : out[n] = <<>>) <=> parsed_files = <<>>

\* A response for which the flexible quotes and the whitespace-tolerant
\* pattern both recover files, and the strict tag none.
C21_Witness ==
    /\ ppc = "done"
    /\ strategy = 2
    /\ Strategy3(response) # <<>>
    /\ Strategy3(response) # parsed_files

(***************************************************************************)
(* SpecEntry: LazarusEngine._detect_entrypoint_and_runtime on a generated  *)
(* file list.  A file is [filename, content]; the content is the set of    *)
(* browser markers that occur in it.                                       *)
(***************************************************************************)
MaxEntryFiles == 3

EntryPaths ==
    { <<"backend", "/", "main", ".py">>,
      <<"Frontend", "/", "app", ".py">>,
      <<"scripts", "/", "util", ".py">>,
      <<"api", "/", "routes", ".py">>,
      <<"requirements", ".txt">>,
      <<"package", ".json">> }

ScriptPaths ==
    { <<"server", ".js">>,
      <<"client", "/", "index", ".js">>,
      <<"backend", "/", "routes", ".js">>,
      <<"dev_server", ".js">> }

ScriptContents == { {}, {"document.", "getElementById"}, {"addEventListener"} }

EntryFileRecords ==
    [filename : EntryPaths, content : {{}}]
    \cup [filename : ScriptPaths, content : ScriptContents]

EntryFileLists == SeqsUpTo(EntryFileRecords, MaxEntryFiles)

\* str.lower() on one token of a path
LowerToken(t) == IF t = "Frontend" THEN "frontend" ELSE t

\* `needle in token` for the tokens of the model
TokenContains(t, needle) ==
    \/ t = needle
    \/ <<t, needle>> \in { <<"dev_server", "server">> }

\* `needle in filename.lower()`
LowerPathContains(p, needle) ==
    \E i \in 1..Len(p) : TokenContains(LowerToken(p[i]), needle)

\* `token.endswith(t)` for the tokens of the model
TokenEndsWith(token, t) ==
    \/ token = t
    \/ <<token, t>> \in { <<"dev_server", "server">> }

\* filename.endswith(suffix), the suffix given as tokens
EndsWith(p, suffix) ==
    /\ Len(suffix) <= Len(p)
    /\ TokenEndsWith(p[Len(p) - Len(suffix) + 1], suffix[1])
    /\ \A k \in 2..Len(suffix) : p[Len(p) - Len(suffix) + k] = suffix[k]

python_entrypoints ==
    { <<"main", ".py">>, <<"app", ".py">>, <<"server", ".py">>,
      <<"run", ".py">>, <<"api", ".py">> }

node_server_entrypoints ==
    { <<"server", ".js">>, <<"index", ".js">>, <<"backend", ".js">>, <<"api", ".js">> }

\* `entrypoint = None`
NoEntrypoint == <<>>

PlaceholderEntrypoint ==
    <<"modernized_stack", "/", "backend", "/", "main", ".py">>

\* The filename of the first file of fs, in list order, that satisfies P,
\* or None: `for f in files: if P(f): entrypoint = f; break`.
FirstFile(fs, P(_)) ==
    IF \E i \in 1..Len(fs) : P(fs[i])
    THEN fs[CHOOSE i \in 1..Len(fs) :
               P(fs[i]) /\ \A j \in 1..(i - 1) : ~P(fs[j])].filename
    ELSE NoEntrypoint

\* Lines 1423-1424
has_python_backend(fs) ==
    \E i \in 1..Len(fs) : EndsWith(fs[i].filename, <<"requirements", ".txt">>)

has_any_py(fs) == \E i \in 1..Len(fs) : EndsWith(fs[i].filename, <<".py">>)

\* A canonical name counts in a frontend or client directory as well.
IsNamedPythonEntrypointAnywhere(f) ==
    basename(f.filename) \in python_entrypoints

\* Lines 1439-1441
IsNamedPythonEntrypoint(f) ==
    /\ ~LowerPathContains(f.filename, "frontend")
    /\ ~LowerPathContains(f.filename, "client")
    /\ basename(f.filename) \in python_entrypoints

\* Line 1450
IsBackendPython(f) ==
    /\ EndsWith(f.filename, <<".py">>)
    /\ \/ LowerPathContains(f.filename, "backend")
       \/ LowerPathContains(f.filename, "api")

\* Lines 1469-1470
is_client_side(content) ==
    content \cap {"document.", "window.", "addEventListener", "getElementById"} # {}

\* Lines 1462-1471
IsNodeServerFile(f) ==
    /\ ~LowerPathContains(f.filename, "frontend")
    /\ ~LowerPathContains(f.filename, "client")
    /\ ~LowerPathContains(f.filename, "public")
    /\ \/ basename(f.filename) \in node_server_entrypoints
       \/ EndsWith(f.filename, <<"server", ".js">>)
    /\ ~is_client_side(f.content)

IsPyFile(f) == EndsWith(f.filename, <<".py">>)

IsBackendPyFile(f) == IsPyFile(f) /\ LowerPathContains(f.filename, "backend")

\* Lines 1491-1493
IsFallbackScript(f) ==
    /\ EndsWith(f.filename, <<".js">>)
    /\ \/ LowerPathContains(f.filename, "backend")
       \/ LowerPathContains(f.filename, "server")
    /\ "document." \notin f.content
    /\ "window." \notin f.content

EntryResult(entrypoint, runtime) == [entrypoint |-> entrypoint, runtime |-> runtime]

\* Lines 1434-1453: PRIORITY 1
PythonSearch(fs) ==
    IF has_python_backend(fs) \/ has_any_py(fs)
    THEN IF FirstFile(fs, IsNamedPythonEntrypoint) # NoEntrypoint
         THEN FirstFile(fs, IsNamedPythonEntrypoint)
         ELSE FirstFile(fs, IsBackendPython)
    ELSE NoEntrypoint

\* Lines 1477-1503: PRIORITY 3
Fallback(fs) ==
    IF \E i \in 1..Len(fs) : IsPyFile(fs[i])
    THEN EntryResult(IF FirstFile(fs, IsBackendPyFile) # NoEntrypoint
                     THEN FirstFile(fs, IsBackendPyFile)
                     ELSE FirstFile(fs, IsPyFile),
                     "python")
    ELSE IF /\ \E i \in 1..Len(fs) : EndsWith(fs[i].filename, <<"package", ".json">>)
            /\ FirstFile(fs, IsFallbackScript) # NoEntrypoint
    THEN EntryResult(FirstFile(fs, IsFallbackScript), "node")
    ELSE EntryResult(PlaceholderEntrypoint, "python")

\* Lines 1409-1505
_detect_entrypoint_and_runtime(fs) ==
    IF PythonSearch(fs) # NoEntrypoint
    THEN EntryResult(PythonSearch(fs), "python")
    ELSE IF FirstFile(fs, IsNodeServerFile) # NoEntrypoint
    THEN EntryResult(FirstFile(fs, IsNodeServerFile), "node")
    ELSE Fallback(fs)

InitEntry ==
    /\ RunIdle
    /\ BatchIdle
    /\ GenIdle
    /\ CallIdle
    /\ ParseIdle
    /\ DetectIdle
    /\ SandboxIdle
    /\ epc = "start"
    /\ gen_files \in EntryFileLists
    /\ entry_result = NoResult

DetectEntrypointAndRuntime ==
    /\ epc = "start"
    /\ entry_result' = _detect_entrypoint_and_runtime(gen_files)
    /\ epc' = "done"
    /\ UNCHANGED gen_files
    /\ UNCHANGED <<run_vars, batch_vars, gen_vars, call_vars, parse_vars,
                   detect_vars, sandbox_vars>>

NextEntry == DetectEntrypointAndRuntime

SpecEntry == InitEntry /\ [][NextEntry]_vars

(***************************************************************************)
(* Properties of SpecEntry                                                 *)
(***************************************************************************)
\* A file named main.py, app.py, server.py, run.py or api.py whose path,
\* letter case aside, contains neither "frontend" nor "client".
CanonicalPythonFile(f) ==
    /\ basename(f.filename) \in
          { <<"main", ".py">>, <<"app", ".py">>, <<"server", ".py">>,
            <<"run", ".py">>, <<"api", ".py">> }
    /\ \A i \in 1..Len(f.filename) :
          LowerToken(f.filename[i]) \notin {"frontend", "client"}

ServerJsWithManifest ==
    { [filename |-> <<"server", ".js">>, content |-> {}],
      [filename |-> <<"package", ".json">>, content |-> {}] }

\* C22. Entrypoint priority for Python: whenever the file set has a file
\* named main.py, app.py, server.py, run.py or api.py whose path contains
\* neither "frontend" nor "client" (letter case aside, as the code compares
\* the lower-cased path), _detect_entrypoint_and_runtime returns the first
\* such file in list order with runtime "python", whatever JavaScript files
\* are present; and for a server.js free of browser APIs plus a package
\* manifest it returns that server.js with runtime "node".
C22_PythonEntrypointPriority ==
    epc = "done" =>
       /\ \A i \in 1..Len(gen_files) :
             ( /\ CanonicalPythonFile(gen_files[i])
               /\ \A j \in 1..(i - 1) : ~CanonicalPythonFile(gen_files[j]) )
             => entry_result = [entrypoint |-> gen_files[i].filename, runtime |-> "python"]
       /\ (gen_files # <<>> /\ Range(gen_files) = ServerJsWithManifest)
             => entry_result = [entrypoint |-> <<"server", ".js">>, runtime |-> "node"]

\* A clean server.js listed before the canonical Python file, and the Python
\* file returned.
C22_Witness ==
    /\ epc = "done"
    /\ Len(gen_files) = 3
    /\ gen_files[1] = [filename |-> <<"server", ".js">>, content |-> {}]
    /\ gen_files[2].filename = <<"Frontend", "/", "app", ".py">>
    /\ gen_files[3].filename = <<"backend", "/", "main", ".py">>
    /\ entry_result = [entrypoint |-> <<"backend", "/", "main", ".py">>, runtime |-> "python"]

BrowserMarkers == {"document.", "window.", "addEventListener", "getElementById"}

\* C25. No browser code as Node entrypoint: whenever the returned runtime is
\* "node", the content of the chosen entrypoint file has none of the markers
\* "document.", "window.", "addEventListener", "getElementById", whether the
\* file was chosen by the canonical-name search or by the package-manifest
\* fallback.
C25_NoBrowserNodeEntrypoint ==
    (epc = "done" /\ entry_result.runtime = "node") =>
       \E i \in 1..Len(gen_files) :
          /\ gen_files[i].filename = entry_result.entrypoint
          /\ gen_files[i].content \cap BrowserMarkers = {}

\* C26. Python takes precedence over Node: if the file set has a
\* requirements.txt or at least one .py file, the inferred runtime is
\* "python"; a Node entrypoint is selected only when it has neither.
C26_PythonPrecedence ==
    epc = "done" =>
       ( (\E i \in 1..Len(gen_files) :
             \/ basename(gen_files[i].filename) = <<"requirements", ".txt">>
             \/ gen_files[i].filename[Len(gen_files[i].filename)] = ".py")
         => entry_result.runtime = "python" )

(***************************************************************************)
(* SpecDetect: LazarusEngine._detect_errors on a sandbox log, the log      *)
(* being the set of the fragments it contains.                             *)
(***************************************************************************)
MaxLogFragments == 2

\* The subsets of F with at most n elements.
RECURSIVE SubsetsUpTo(_, _)
SubsetsUpTo(F, n) ==
    IF n = 0 THEN {{}}
    ELSE LET S == SubsetsUpTo(F, n - 1)
         IN  S \cup { s \cup {x} : s \in S, x \in F }

DetectLogs == SubsetsUpTo(DetectFragments, MaxLogFragments)

InitDetect ==
    /\ RunIdle
    /\ BatchIdle
    /\ GenIdle
    /\ CallIdle
    /\ ParseIdle
    /\ EntryIdle
    /\ SandboxIdle
    /\ dpc = "start"
    /\ detect_log \in DetectLogs
    /\ detection = NoResult

DetectErrors ==
    /\ dpc = "start"
    /\ detection' = _detect_errors(detect_log)
    /\ dpc' = "done"
    /\ UNCHANGED detect_log
    /\ UNCHANGED <<run_vars, batch_vars, gen_vars, call_vars, parse_vars,
                   entry_vars, sandbox_vars>>

NextDetect == DetectErrors

SpecDetect == InitDetect /\ [][NextDetect]_vars

(***************************************************************************)
(* Properties of SpecDetect                                                *)
(***************************************************************************)
\* The pattern of rule i matches somewhere in the log, letter case ignored.
RuleMatches(i, text) == \E fr \in text : RegexSearch(error_patterns[i][1], fr)

\* C23. Classification priority: _detect_errors returns the kind of the
\* first rule, in rule-list order, whose pattern matches anywhere in the
\* log, letter case ignored; a log with the "BACKEND_CRASH:" marker and
\* "No such file or directory", and no match of an earlier rule, is
\* classified BACKEND_CRASH; an empty log and a log that matches no rule
\* are reported as no error.
C23_ClassificationPriority ==
    dpc = "done" =>
       /\ \A i \in 1..Len(error_patterns) :
             ( /\ RuleMatches(i, detect_log)
               /\ \A j \in 1..(i - 1) : ~RuleMatches(j, detect_log) )
             => (detection.detected /\ detection.type = error_patterns[i][2])
       /\ (\A i \in 1..Len(error_patterns) : ~RuleMatches(i, detect_log))
             => ~detection.detected
       /\ detect_log = {"BACKEND_CRASH:", "No such file or directory"}
             => detection.type = "BACKEND_CRASH"

\* The crash marker in lower case beside the generic file message.
C23_Witness ==
    /\ dpc = "done"
    /\ detect_log = {"backend_crash:", "No such file or directory"}
    /\ detection.detected
    /\ detection.type = "BACKEND_CRASH"

\* Rule a is strictly more specific than rule b: every fragment rule a
\* matches is matched by rule b, and rule b matches more.
MoreSpecific(a, b) ==
    /\ \A fr \in DetectFragments :
          RegexSearch(error_patterns[a][1], fr) => RegexSearch(error_patterns[b][1], fr)
    /\ \E fr \in DetectFragments :
          RegexSearch(error_patterns[b][1], fr) /\ ~RegexSearch(error_patterns[a][1], fr)

\* C24. Most-specific-first rule order: whenever rule A is strictly more
\* specific than rule B and the two carry different kinds, A is listed
\* before B, so that the kind of a rule that matches the log is not hidden by
\* an earlier, more general rule: every kind of the table is returned for
\* some log.
C24_MostSpecificFirst ==
    dpc = "done" =>
       \A a, b \in 1..Len(error_patterns) :
          ( /\ RuleMatches(a, detect_log)
            /\ MoreSpecific(a, b)
            /\ error_patterns[a][2] # error_patterns[b][2] )
          => a < b


(***************************************************************************)
(* execute_in_sandbox, as the retry loop of one request calls it on its    *)
(* engine (main.py builds one LazarusEngine per request): teardown of the  *)
(* previous session, creation of the new one with one retry, deployment,   *)
(* the health-check loop, and the branch the orchestrator takes on the     *)
(* returned log.  The entrypoint is never "error.log" here: the            *)
(* orchestrator raises on such a file list before the call.                *)
(***************************************************************************)
\* `for i in range(20)` of the Node.js health check
NodeHealthPolls == 20

\* `for i in range(20)` of the Python health check
PythonHealthPolls == 20

\* `if i == 4`: the early log check happens in the fifth poll
EarlyCheckPoll == 4 + 1

HealthPolls(rt) == IF rt = "node" THEN NodeHealthPolls ELSE PythonHealthPolls

\* The loop going on for one poll more.
LoopContinuesOneMore(rt, n) == n < HealthPolls(rt) + 1

\* Whether `for i in range(20)` has another iteration after n polls.
LoopContinues(rt, n) == n < HealthPolls(rt)

\* What app.log holds when the backend did not come up.
AppLogs ==
    { {},
      {"ModuleNotFoundError:"},
      {"SyntaxError:"},
      {"Cannot find module", "throw err;"},
      {"Permission denied"} }

crash_indicators ==
    {"SyntaxError", "ImportError", "ModuleNotFoundError", "NameError",
     "IndentationError", "AttributeError: module"}

\* `indicator in early_log` on one fragment
HasIndicator(fr, indicator) ==
    <<fr, indicator>> \in
       { <<"ModuleNotFoundError:", "ModuleNotFoundError">>,
         <<"SyntaxError:", "SyntaxError">>,
         <<"SyntaxError: Unexpected", "SyntaxError">>,
         <<"ImportError:", "ImportError">>,
         <<"NameError:", "NameError">>,
         <<"IndentationError:", "IndentationError">> }

\* `early_log and len(early_log) > 10 and any(indicator in early_log ...)`
EarlyCrash(early_log) ==
    \E fr \in early_log : \E ind \in crash_indicators : HasIndicator(fr, ind)

\* f"BACKEND_CRASH: {log_content[:800]}"
PythonStartupFailure(log_content) == {"BACKEND_CRASH:"} \cup log_content

\* f"FATAL: Node.js Backend failed to start after 60 seconds. ... {stdout[:1000]}"
NodeStartupFailure(app_log) ==
    {"FATAL: Node.js Backend failed to start after 60 seconds."} \cup app_log

\* f"Sandbox Error: {str(e)}" and the message of the failed creation
SandboxError == {"Sandbox Error:"}

\* What a call returns once its backend answered the health check.
DeployedReturns(rt) ==
    IF rt = "node"
    THEN { {"Node.js Server started successfully.", "[PREVIEW_URL] https://"},
           {"Dual-Stack Deployed Successfully.", "[PREVIEW_URL] https://"},
           {"Node.js Backend started (Frontend build failed)", "[PREVIEW_URL] https://"},
           SandboxError }
    ELSE { {"Backend Server started.", "[PREVIEW_URL] https://"},
           {"Dual-Stack Deployed Successfully.", "[PREVIEW_URL] https://"},
           {"FRONTEND BUILD FAILED"},
           SandboxError }

\* The handle kept when close() raises.
HandleAfterCloseKeptOnFailure(h, ok) == IF ok THEN 0 ELSE h

\* `finally: self.sandbox = None`
HandleAfterClose(h, ok) == 0

\* Lines 2761-2783: the branch taken on the returned log.
AttemptOutcome(text, rc) ==
    IF _detect_errors(text).detected
    THEN IF CanRetry(rc) THEN "retry" ELSE "failed"
    ELSE "success"

RunPinned ==
    UNCHANGED <<pc, plan, fallback_mode, sandbox_logs, run_files,
                all_errors, stream, memory, gen_plans, outcomes>>

OthersPinned ==
    UNCHANGED <<batch_vars, gen_vars, call_vars, parse_vars, entry_vars, detect_vars,
                wpc, written_paths, launch_path, tpc, own>>

InitSandbox ==
    /\ RunIdle
    /\ BatchIdle
    /\ GenIdle /\ CallIdle /\ ParseIdle /\ EntryIdle /\ DetectIdle
    /\ spc = "idle"
    /\ sandbox = 0
    /\ sessions = <<>>
    /\ exec_calls = 0
    /\ close_attempts = <<>>
    /\ sbx_runtime = "none"
    /\ polls = 0
    /\ sbx_return = {}
    /\ attempt_result = "none"
    /\ e2b_available \in BOOLEAN
    /\ health = "none"
    /\ wpc = "unused"
    /\ written_paths = <<>>
    /\ launch_path = <<>>
    /\ tpc = <<>>
    /\ own = <<>>

\* An attempt that ends in one of the except branches before the sandbox
\* is used (generation raised).
GenerationRaises ==
    /\ spc = "idle"
    /\ attempt_result' = IF CanRetry(retry_count) THEN "retry" ELSE "failed"
    /\ retry_count' = IF CanRetry(retry_count) THEN NextRetryCount(retry_count)
                      ELSE retry_count
    /\ spc' = IF CanRetry(retry_count) THEN "idle" ELSE "done"
    /\ health' = "none"
    /\ polls' = 0
    /\ sbx_return' = {}
    /\ UNCHANGED <<sandbox, sessions, exec_calls, close_attempts, sbx_runtime,
                   e2b_available>>
    /\ RunPinned /\ OthersPinned

\* Lines 1995-1998 and the entry into the try block.
CallExecuteInSandbox ==
    /\ spc = "idle"
    /\ \E rt \in {"python", "node"} : sbx_runtime' = rt
    /\ exec_calls' = exec_calls + 1
    /\ polls' = 0
    /\ health' = "none"
    /\ attempt_result' = "none"
    /\ IF e2b_available
       THEN spc' = "teardown" /\ sbx_return' = {}
       ELSE spc' = "returned" /\ sbx_return' = {"E2B Sandbox not available"}
    /\ UNCHANGED <<sandbox, sessions, close_attempts, e2b_available, retry_count>>
    /\ RunPinned /\ OthersPinned

\* Lines 2014-2022: close() of the stored session succeeds or raises.
Teardown ==
    /\ spc = "teardown"
    /\ IF sandbox # 0
       THEN \E ok \in BOOLEAN :
               /\ close_attempts' = Append(close_attempts, [session |-> sandbox, ok |-> ok])
               /\ sessions' = IF ok THEN [sessions EXCEPT ![sandbox] = "closed"]
                              ELSE sessions
               /\ sandbox' = HandleAfterClose(sandbox, ok)
       ELSE UNCHANGED <<close_attempts, sessions, sandbox>>
    /\ spc' = "create"
    /\ UNCHANGED <<exec_calls, sbx_runtime, polls, sbx_return, attempt_result,
                   e2b_available, health, retry_count>>
    /\ RunPinned /\ OthersPinned

\* Lines 2027-2040: Sandbox.create, retried once after a failure.
CreateSandbox ==
    /\ spc \in {"create", "create_retry"}
    /\ \/ /\ sessions' = Append(sessions, "open")
          /\ sandbox' = Len(sessions) + 1
          /\ spc' = "deploy"
          /\ UNCHANGED sbx_return
       \/ /\ spc = "create"
          /\ spc' = "create_retry"
          /\ UNCHANGED <<sessions, sandbox, sbx_return>>
       \/ /\ spc = "create_retry"
          /\ spc' = "returned"
          /\ sbx_return' = SandboxError
          /\ UNCHANGED <<sessions, sandbox>>
    /\ UNCHANGED <<exec_calls, close_attempts, sbx_runtime, polls, attempt_result,
                   e2b_available, health, retry_count>>
    /\ RunPinned /\ OthersPinned

\* Lines 2042-2181 and 2404-2437: files written, dependencies installed,
\* backend started in the background; an exception of the sandbox ends the
\* call in the outer except.
Deploy ==
    /\ spc = "deploy"
    /\ \/ /\ spc' = "poll"
          /\ health' = "polling"
          /\ UNCHANGED sbx_return
       \/ /\ spc' = "returned"
          /\ sbx_return' = SandboxError
          /\ UNCHANGED health
    /\ UNCHANGED <<sandbox, sessions, exec_calls, close_attempts, sbx_runtime,
                   polls, attempt_result, e2b_available, retry_count>>
    /\ RunPinned /\ OthersPinned

\* One iteration of the health-check loop (2188-2222, 2442-2485) and, when
\* the loop ends without an answer, the return that follows it (2224-2227,
\* 2487-2505).
HealthCheckPoll ==
    /\ spc = "poll"
    /\ LoopContinues(sbx_runtime, polls)
    /\ polls' = polls + 1
    /\ \/ \* the backend answers
          /\ health' = "up"
          /\ spc' = "frontend"
          /\ UNCHANGED sbx_return
       \/ \* no answer, and the loop goes on
          /\ LoopContinues(sbx_runtime, polls + 1)
          /\ \/ sbx_runtime = "node"
             \/ polls + 1 # EarlyCheckPoll
             \/ \E early_log \in AppLogs : ~EarlyCrash(early_log)
          /\ UNCHANGED <<health, spc, sbx_return>>
       \/ \* no answer, Python: the early log check breaks out of the loop
          /\ sbx_runtime = "python"
          /\ polls + 1 = EarlyCheckPoll
          /\ \E early_log \in AppLogs :
                /\ EarlyCrash(early_log)
                /\ sbx_return' = PythonStartupFailure(early_log)
          /\ health' = "failed"
          /\ spc' = "returned"
       \/ \* no answer in the last iteration
          /\ ~LoopContinues(sbx_runtime, polls + 1)
          /\ health' = "failed"
          /\ spc' = "returned"
          /\ IF sbx_runtime = "python"
             THEN \E log_content \in AppLogs \cup {{"Could not read app.log"}} :
                     sbx_return' = PythonStartupFailure(log_content)
             ELSE \/ \E app_log \in AppLogs : sbx_return' = NodeStartupFailure(app_log)
                  \/ sbx_return' = SandboxError
    /\ UNCHANGED <<sandbox, sessions, exec_calls, close_attempts, sbx_runtime,
                   attempt_result, e2b_available, retry_count>>
    /\ RunPinned /\ OthersPinned

\* Lines 2229-2402 and 2507-2632: the frontend stage and the final return.
FrontendStage ==
    /\ spc = "frontend"
    /\ \E text \in DeployedReturns(sbx_runtime) : sbx_return' = text
    /\ spc' = "returned"
    /\ UNCHANGED <<sandbox, sessions, exec_calls, close_attempts, sbx_runtime,
                   polls, attempt_result, e2b_available, health, retry_count>>
    /\ RunPinned /\ OthersPinned

\* Lines 2757-2783: _detect_errors on the returned log and the branch on it.
HandleSandboxLogs ==
    /\ spc = "returned"
    /\ attempt_result' = AttemptOutcome(sbx_return, retry_count)
    /\ retry_count' = IF AttemptOutcome(sbx_return, retry_count) = "retry"
                      THEN NextRetryCount(retry_count) ELSE retry_count
    /\ spc' = IF AttemptOutcome(sbx_return, retry_count) = "retry" THEN "idle" ELSE "done"
    /\ UNCHANGED <<sandbox, sessions, exec_calls, close_attempts, sbx_runtime,
                   polls, sbx_return, e2b_available, health>>
    /\ RunPinned /\ OthersPinned

NextSandbox ==
    \/ GenerationRaises
    \/ CallExecuteInSandbox
    \/ Teardown
    \/ CreateSandbox
    \/ Deploy
    \/ HealthCheckPoll
    \/ FrontendStage
    \/ HandleSandboxLogs

SpecSandbox == InitSandbox /\ [][NextSandbox]_vars

FairSpecSandbox == SpecSandbox /\ WF_vars(NextSandbox)

\* C27: every call that reaches session creation has first attempted to close
\* the session the engine held (if any) and cleared the handle, whether or
\* not that close succeeded; a failed close is followed by the creation step
\* all the same; and the handle, when set, is the most recently created
\* session, every other session having had its close attempted, so that the
\* engine never refers to two sessions.
AttemptedSessions == {close_attempts[i].session : i \in 1..Len(close_attempts)}

C27_TeardownBeforeCreate ==
    /\ spc \in {"create", "create_retry"} =>
          /\ sandbox = 0
          /\ AttemptedSessions = 1..Len(sessions)
    /\ (spc = "create" /\ close_attempts # <<>>
          /\ ~close_attempts[Len(close_attempts)].ok) => sandbox = 0
    /\ sandbox \in {0, Len(sessions)}
    /\ sandbox # 0 => AttemptedSessions = 1..(Len(sessions) - 1)
    /\ spc = "deploy" => sandbox = Len(sessions) /\ sessions[sandbox] = "open"

\* A second session created after the close of the first one failed.
C27_Witness ==
    /\ Len(sessions) = 2
    /\ sandbox = 2
    /\ close_attempts = << [session |-> 1, ok |-> FALSE] >>
    /\ sessions[1] = "open"

\* C28: a health check that is never answered ends after at most 20 polls on
\* the Python and on the Node.js path; the call then returns a log that
\* _detect_errors classifies as an error, and the orchestrator retries the
\* attempt or counts it as failed, never as a success.
C28_BoundedHealthCheck ==
    /\ polls <= 20
    /\ health = "failed" =>
          /\ spc \in {"returned", "idle", "done"}
          /\ _detect_errors(sbx_return).detected
          /\ spc \in {"idle", "done"} => attempt_result \in {"retry", "failed"}
    /\ (spc = "poll" /\ polls = 20) => FALSE

\* The Node.js backend never answered in 20 polls on the last attempt of
\* the run, which is counted as failed.
C28_Witness ==
    /\ health = "failed"
    /\ sbx_runtime = "node"
    /\ polls = 20
    /\ spc = "done"
    /\ attempt_result = "failed"
    /\ retry_count = MAX_RETRIES


(***************************************************************************)
(* The file set a run ends with                                            *)
(***************************************************************************)
\* The attempts of the run whose generation handed a file list to the loop.
ProducingAttempts == {i \in 1..Len(outcomes) : outcomes[i].parsed # <<>>}

LastProducedFiles ==
    IF ProducingAttempts = {} THEN <<>>
    ELSE outcomes[CHOOSE i \in ProducingAttempts :
                     \A j \in ProducingAttempts : j <= i].parsed

RetryBudgetExhausted ==
    /\ Len(outcomes) = MAX_RETRIES + 1
    /\ \A i \in 1..Len(outcomes) : outcomes[i].kind # "SUCCESS"

\* C30: when the retry budget is exhausted, the artifacts of the terminal
\* result are the file list of the most recent attempt whose generation
\* produced files, and they are empty only if no attempt produced any.
C30_PartialResultPreserved ==
    ( /\ pc = "done"
      /\ stream # <<>>
      /\ Last(stream).type = "result"
      /\ RetryBudgetExhausted )
    => /\ Last(stream).artifacts = LastProducedFiles
       /\ Last(stream).artifacts = <<>> <=> ProducingAttempts = {}

\* An exhausted run whose last attempt raised during generation, after an
\* earlier attempt had produced files the sandbox rejected.
C30_Witness ==
    /\ pc = "done"
    /\ Last(stream).type = "result"
    /\ RetryBudgetExhausted
    /\ outcomes[1].kind = "SANDBOX"
    /\ outcomes[Len(outcomes)].parsed = <<>>
    /\ Last(stream).artifacts = outcomes[1].parsed
    /\ Last(stream).artifacts # <<>>


\* C29: the file list one generation attempt returns never holds two
\* records with the same path, whether the path came from two batches or
\* from a batch and the recovery call.
C29_UniqueGeneratedPaths ==
    gen_result.kind = "return" =>
        \A i, j \in 1..Len(gen_result.files) :
            i # j => gen_result.files[i].filename # gen_result.files[j].filename


(***************************************************************************)
(* Resolution of the "- <path>" lines of a plan                            *)
(***************************************************************************)
PlanItems == {plan_lines[i].path : i \in {k \in 1..Len(plan_lines) : plan_lines[k].kind = "item"}}

ExactMatches(fs, t) == {i \in 1..Len(fs) : fs[i].path = t}

ContainmentMatches(fs, t) ==
    {i \in 1..Len(fs) : IsSuffix(t, fs[i].path) \/ IsSuffix(fs[i].path, t)}

\* C31: a "- <path>" line resolves to at most one file: the file with that
\* exact path if there is one, else a file matching by suffix containment if
\* there is one; a file that matches by basename only is taken only when no
\* file matches by containment.
C31_PlanPathPriority ==
    bpc = "done" =>
        \A t \in PlanItems :
            LET r == ResolvePlanPath(files, t)
            IN  /\ Len(r) <= 1
                /\ ExactMatches(files, t) # {} =>
                      r # <<>> /\ r[1].path = t
                /\ (ExactMatches(files, t) = {} /\ ContainmentMatches(files, t) # {}) =>
                      /\ r # <<>>
                      /\ \E i \in ContainmentMatches(files, t) : r[1] = files[i]


(***************************************************************************)
(* The synthetic plan of _build_fallback_plan and the batches generation   *)
(* derives from it.  A line of the plan text is kept in its written shape; *)
(* the header regex of _parse_batches_from_plan decides what it is.        *)
(***************************************************************************)
\* re.match(r'(?:\*\*)?BATCH\s+\d+\s*[-:]\s*(.+?)(?:\*\*)?:?\s*$', stripped,
\* re.IGNORECASE) on the shapes a header line is written in: the match is
\* anchored at the first character of the stripped line.
HeaderRegexMatches(shape) ==
    shape \in {"BATCH n - name:", "BATCH n: name", "**BATCH n - name**:",
               "batch n - name:"}

\* One written line as _parse_batches_from_plan reads it.
ClassifyLine(raw) ==
    IF HeaderRegexMatches(raw.shape)
    THEN [kind |-> "header", name |-> raw.name, path |-> <<>>]
    ELSE IF raw.shape = "- path"
    THEN [kind |-> "item", name |-> <<>>, path |-> raw.path]
    ELSE [kind |-> "text", name |-> <<>>, path |-> <<>>]

ClassifyLines(raws) == [i \in 1..Len(raws) |-> ClassifyLine(raws[i])]

FirstSlash(p) ==
    IF \E i \in 1..Len(p) : p[i] = "/"
    THEN CHOOSE i \in 1..Len(p) : p[i] = "/" /\ \A j \in 1..(i-1) : p[j] # "/"
    ELSE 0

\* `parts[0] if len(parts) > 1 else "root"`
TopGroup(p) == IF FirstSlash(p) = 0 THEN <<"root">> ELSE SubSeq(p, 1, FirstSlash(p) - 1)

\* The keys of dir_groups in insertion order.
RECURSIVE GroupOrder(_, _)
GroupOrder(fs, seen) ==
    IF fs = <<>> THEN <<>>
    ELSE IF TopGroup(Head(fs).path) \in seen
    THEN GroupOrder(Tail(fs), seen)
    ELSE <<TopGroup(Head(fs).path)>>
           \o GroupOrder(Tail(fs), seen \cup {TopGroup(Head(fs).path)})

\* dir_groups: per top-level directory its files, in scan order.
dir_groups(fs) ==
    [i \in 1..Len(GroupOrder(fs, {})) |->
        [name |-> GroupOrder(fs, {})[i],
         files |-> SelectSeq(fs, LAMBDA f : TopGroup(f.path) = GroupOrder(fs, {})[i])]]

TextLine == [shape |-> "text", name |-> <<>>, path |-> <<>>]

PathLine(f) == [shape |-> "- path", name |-> <<>>, path |-> f.path]

RECURSIVE Flatten(_)
Flatten(ss) == IF ss = <<>> THEN <<>> ELSE Head(ss) \o Flatten(Tail(ss))

\* Lines 1326-1329: "\n#### BATCH {i}: {group}\n" and one "- {f}" per file
GroupLines(g) ==
    << TextLine, [shape |-> "#### BATCH n: name", name |-> g.name, path |-> <<>>] >>
    \o [j \in 1..Len(g.files) |-> PathLine(g.files[j])]

\* The plan text, line by line: title and tech stack, the file list, the
\* batch groups, the strategy.
_build_fallback_plan(fs) ==
    << TextLine, TextLine >>
    \o [j \in 1..Len(fs) |-> PathLine(fs[j])]
    \o << TextLine >>
    \o Flatten([i \in 1..Len(dir_groups(fs)) |-> GroupLines(dir_groups(fs)[i])])
    \o << TextLine, TextLine >>

InitFallbackPlan ==
    /\ bpc = "plan"
    /\ files \in FileLists
    /\ plan_lines = <<>>
    /\ max_chars \in 1..MaxChars
    /\ in_batches = <<>>
    /\ batches = <<>>
    /\ RunIdle
    /\ ExtIdle

\* generate_modernization_plan, lines 1278-1284: the planner call raised
\* GeminiAPIError and the synthetic plan is returned.
PlanFallsBack ==
    /\ bpc = "plan"
    /\ plan_lines' = ClassifyLines(_build_fallback_plan(files))
    /\ bpc' = "input"
    /\ UNCHANGED <<files, max_chars, in_batches, batches>>
    /\ UNCHANGED <<run_vars, ext_vars>>

NextFallbackPlan == PlanFallsBack \/ GroupFilesIntoBatches

SpecFallbackPlan == InitFallbackPlan /\ [][NextFallbackPlan]_vars

FilesOf(bs) == [i \in 1..Len(bs) |-> bs[i].files]

\* C32: with the synthetic plan, the batches used for generation are the
\* groups that plan declares: one batch per top-level directory, holding the
\* files listed under it, in the plan's order.
C32_SyntheticPlanHonoured ==
    (bpc = "done" /\ files # <<>>) => FilesOf(batches) = FilesOf(dir_groups(files))


(***************************************************************************)
(* Batching on a retry attempt: the plan text with the retry context of    *)
(* _build_error_context appended, read by _parse_batches_from_plan.        *)
(***************************************************************************)
RetryPaths ==
    { <<"next.config", ".ts">>,
      <<"a", ".py">>,
      <<"d", "/", "a", ".py">> }

RetryFileLists ==
    {fs \in SeqsUpTo([path : RetryPaths, len : {1}], MaxFiles) : DistinctPaths(fs)}

RetryPlanLineKinds ==
    { [kind |-> "header", name |-> <<"A">>, path |-> <<>>],
      [kind |-> "header", name |-> <<"B">>, path |-> <<>>],
      [kind |-> "text", name |-> <<>>, path |-> <<>>] }
    \cup { [kind |-> "item", name |-> <<>>, path |-> t] : t \in RetryPaths }

RetryPlanTexts == SeqsUpTo(RetryPlanLineKinds, MaxPlanLines)

RetryErrorLists ==
    { << [attempt |-> 1, type |-> "BACKEND_CRASH",
          message |-> [text |-> {"BACKEND_CRASH:"}, len |-> ContextLen]] >>,
      << [attempt |-> 1, type |-> "BACKEND_CRASH",
          message |-> [text |-> {"BACKEND_CRASH:"}, len |-> ContextLen]],
         [attempt |-> 2, type |-> "EXCEPTION", message |-> NoFilesMessage] >> }

\* The "- ..." lines of the COMMON FIXES and CRITICAL REMINDERS text, as
\* file_path after `stripped[2:].strip().strip(quotes)`: the text is one
\* token unless it ends in something shaped like a file name.
CommonFixesItems ==
    << <<"Check the app.log for the real error (imports, syntax, port conflicts)">>,
       <<"Frontend files (HTML", "/", "CSS", "/", "JS) should be in frontend", "/", " directory">>,
       <<"Use ONLY alphanumeric, hyphens, underscores in file paths">>,
       <<"layout.tsx MUST import '.", "/", "globals", ".css">>,
       <<"globals.css MUST start with @tailwind directives">>,
       <<"next.config.mjs NOT ", "next.config", ".ts">>,
       <<"All TypeScript files need 'use client' for interactive components">> >>

TextPlanLine == [kind |-> "text", name |-> <<>>, path |-> <<>>]

\* The lines one segment of the retry context adds to the plan text.
SegmentLines(s) ==
    IF s.seg = "common fixes"
    THEN <<TextPlanLine>>
         \o [i \in 1..Len(CommonFixesItems) |->
                [kind |-> "item", name |-> <<>>, path |-> CommonFixesItems[i]]]
         \o <<TextPlanLine>>
    ELSE <<TextPlanLine, TextPlanLine>>

\* (plan + error_context).split('\n'), the part after the plan
ContextLines(errors) ==
    Flatten([i \in 1..Len(_build_error_context(errors)) |->
                SegmentLines(_build_error_context(errors)[i])])

InitRetryBatch ==
    /\ bpc = "first"
    /\ files \in RetryFileLists
    /\ plan_lines \in RetryPlanTexts
    /\ max_chars \in 1..MaxChars
    /\ in_batches = <<>>
    /\ batches = <<>>
    /\ RunIdle
    /\ ExtIdle

\* Lines 2732 and 1725: the first attempt batches the files with the plan
\* text alone; the attempt fails and its error is recorded.
FirstAttemptBatches ==
    /\ bpc = "first"
    /\ batches' = _group_files_into_batches(files, plan_lines, max_chars)
    /\ \E errors \in RetryErrorLists : all_errors' = errors
    /\ retry_count' = Len(all_errors')
    /\ bpc' = "retry"
    /\ UNCHANGED <<files, plan_lines, max_chars, in_batches>>
    /\ UNCHANGED <<pc, plan, fallback_mode, sandbox_logs, run_files, stream, memory,
                   gen_plans, outcomes>>
    /\ UNCHANGED ext_vars

\* Lines 2723-2729 and 1725: a retry attempt batches the files with
\* plan + error_context.
RetryAttemptBatches ==
    /\ bpc = "retry"
    /\ batches' = _group_files_into_batches(files, plan_lines \o ContextLines(all_errors),
                                            max_chars)
    /\ bpc' = "done"
    /\ UNCHANGED <<files, plan_lines, max_chars, in_batches>>
    /\ UNCHANGED run_vars
    /\ UNCHANGED ext_vars

NextRetryBatch == FirstAttemptBatches \/ RetryAttemptBatches

SpecRetryBatch == InitRetryBatch /\ [][NextRetryBatch]_vars

\* C33: for the same files and plan text, the batches of a retry attempt
\* (plan text with the retry context appended) are the batches of the first
\* attempt: same batches, same files, same order.
C33_RetryContextKeepsBatches ==
    (bpc = "done" /\ all_errors # <<>>) =>
        batches = _group_files_into_batches(files, plan_lines, max_chars)


(***************************************************************************)
(* The batch loop: pauses and contributions                                *)
(***************************************************************************)
\* C34: in multi-batch generation one call is issued per batch, and every
\* call that is followed by another batch call is followed by a pause
\* first, whatever its outcome was: when the loop is about to issue the call
\* of batch k+1, k calls and k pauses have been made.
C34_CooldownBetweenBatches ==
    gpc = "batch" =>
        /\ Len(BatchCalls) = batch_idx
        /\ Len(sleeps) = batch_idx

\* C35: every response of a batch call or of the recovery call from which
\* the parser recovers files contributes those files to the attempt's
\* generated file list.
C35_NoSuccessfulBatchDiscarded ==
    gpc \in {"handle", "done"} =>
        \A i \in 1..Len(calls) :
            (calls[i].mode \in {"batch", "recovery"} /\ calls[i].outcome.kind = "response") =>
                \A k \in 1..Len(calls[i].outcome.parsed) :
                    \E n \in 1..Len(all_generated_files) :
                        all_generated_files[n] = calls[i].outcome.parsed[k]


\* C36: when the line state machine produces the result, every capture is
\* emitted: the one ended by a closing fragment, the one ended by the next
\* opening tag and the one still open at the end of the input, a capture
\* without any content line included.  Every block of the response is one
\* capture, so every block's path is the filename of a parsed file.
C36_LineStateMachine ==
    (ppc = "done" /\ strategy = 4) =>
        \A i \in 1..Len(response) :
            \E k \in 1..Len(parsed_files) :
                parsed_files[k].filename = strip(response[i].path)


\* C37: the entrypoint _detect_entrypoint_and_runtime returns is never a
\* frontend file: its path does not contain "frontend", in any letter case,
\* whichever selection path produced it.
C37_EntrypointNotFrontend ==
    epc = "done" => ~LowerPathContains(entry_result.entrypoint, "frontend")


(***************************************************************************)
(* SpecDeploy: the file writes of execute_in_sandbox and the command that  *)
(* starts the entrypoint.  A file name is a sequence of tokens: words of   *)
(* letters, ".py" / ".js", and the single characters "/", " ", "_", "("    *)
(* and ")".                                                                *)
(***************************************************************************)
MaxDeployFiles == 2

\* The characters sanitize_path removes (of its 20, those the names of the
\* model use).
RemovedCharacters == {"(", ")"}

RECURSIVE ReplaceCharacters(_)
ReplaceCharacters(p) ==
    IF p = <<>> THEN <<>>
    ELSE IF Head(p) \in RemovedCharacters THEN ReplaceCharacters(Tail(p))
    ELSE IF Head(p) = " " THEN <<"_">> \o ReplaceCharacters(Tail(p))
    ELSE <<Head(p)>> \o ReplaceCharacters(Tail(p))

\* `while c + c in result: result = result.replace(c + c, c)`
RECURSIVE CollapseRuns(_, _)
CollapseRuns(p, c) ==
    IF Len(p) < 2 THEN p
    ELSE IF p[1] = c /\ p[2] = c THEN CollapseRuns(Tail(p), c)
    ELSE <<Head(p)>> \o CollapseRuns(Tail(p), c)

sanitize_path(p) == CollapseRuns(CollapseRuns(ReplaceCharacters(p), "_"), "/")

DeployNames ==
    { <<"main", ".py">>,
      <<"my", " ", "app", "/", "main", ".py">>,
      <<"my", "_", "app", "/", "main", ".py">>,
      <<"(", "api", ")", "/", "server", ".js">>,
      <<"api", "/", "server", ".js">>,
      <<"api", "/", "/", "routes", ".py">>,
      <<"src", "/", "index", ".js">> }

DeployFileLists ==
    { fs \in SeqsUpTo([filename : DeployNames, content : {{}}], MaxDeployFiles) :
         /\ fs # <<>>
         /\ \A i, j \in 1..Len(fs) : i # j => fs[i].filename # fs[j].filename }

RuntimeOf(name) == IF name[Len(name)] = ".js" THEN "node" ELSE "python"

\* Line 2437 `python {entrypoint}`; lines 2168-2179 `cd {entrypoint_dir} &&
\* node {server_basename}` or `node {entrypoint}`: the file the command
\* names, relative to the sandbox home.
LaunchPath(entrypoint, runtime) ==
    IF runtime = "node" /\ dirname(entrypoint) # <<>>
    THEN dirname(entrypoint) \o <<"/">> \o basename(entrypoint)
    ELSE entrypoint

InitDeploy ==
    /\ RunIdle
    /\ BatchIdle
    /\ GenIdle /\ CallIdle /\ ParseIdle /\ DetectIdle
    /\ epc = "idle"
    /\ gen_files \in DeployFileLists
    /\ \E i \in 1..Len(gen_files) :
          entry_result = EntryResult(gen_files[i].filename, RuntimeOf(gen_files[i].filename))
    /\ spc = "unused"
    /\ sandbox = 0
    /\ sessions = <<>>
    /\ exec_calls = 0
    /\ close_attempts = <<>>
    /\ sbx_runtime = "none"
    /\ polls = 0
    /\ sbx_return = {}
    /\ attempt_result = "none"
    /\ e2b_available = TRUE
    /\ health = "none"
    /\ wpc = "start"
    /\ written_paths = <<>>
    /\ launch_path = <<>>
    /\ tpc = <<>>
    /\ own = <<>>

\* Lines 2042-2072: every file is written under its sanitized name.
WriteFiles ==
    /\ wpc = "start"
    /\ written_paths' = [i \in 1..Len(gen_files) |-> sanitize_path(gen_files[i].filename)]
    /\ wpc' = "written"
    /\ UNCHANGED launch_path
    /\ UNCHANGED <<spc, sandbox, sessions, exec_calls, close_attempts, sbx_runtime,
                   polls, sbx_return, attempt_result, e2b_available, health,
                   tpc, own>>
    /\ UNCHANGED <<run_vars, batch_vars, gen_vars, call_vars, parse_vars,
                   entry_vars, detect_vars>>

\* Lines 2166-2181 and 2435-2437: the backend is started.
StartBackend ==
    /\ wpc = "written"
    /\ launch_path' = LaunchPath(entry_result.entrypoint, entry_result.runtime)
    /\ wpc' = "done"
    /\ UNCHANGED written_paths
    /\ UNCHANGED <<spc, sandbox, sessions, exec_calls, close_attempts, sbx_runtime,
                   polls, sbx_return, attempt_result, e2b_available, health,
                   tpc, own>>
    /\ UNCHANGED <<run_vars, batch_vars, gen_vars, call_vars, parse_vars,
                   entry_vars, detect_vars>>

NextDeploy == WriteFiles \/ StartBackend

SpecDeploy == InitDeploy /\ [][NextDeploy]_vars

\* C38: the path the start command names is the path the entrypoint file
\* was written to (a repeated "/" in the command names the same file as a
\* single one), and two files with distinct names are written to distinct
\* sandbox paths.
C38_EntrypointPathConsistency ==
    wpc = "done" =>
        /\ \A i \in 1..Len(gen_files) :
              gen_files[i].filename = entry_result.entrypoint =>
                  CollapseRuns(launch_path, "/") = written_paths[i]
        /\ \A i, j \in 1..Len(gen_files) :
              i # j => written_paths[i] # written_paths[j]


\* ---------------------------------------------------------------------
\* Sandbox unavailable (lines 1995-1998, 2757-2783, 2846-2851)
\* ---------------------------------------------------------------------

\* `return "E2B Sandbox not available (Dependencies or Key missing)."`
SandboxUnavailable == {"E2B Sandbox not available"}

\* C39: when the sandbox is unavailable, execute_in_sandbox returns the
\* unavailable message (no session, no exception); no attempt that received
\* that message is recorded as a success, and a run whose last sandbox log is
\* that message does not end with status "Resurrected".
C39_UnexecutedNotResurrected ==
    /\ \A i \in 1..Len(outcomes) :
          outcomes[i].returned = <<SandboxUnavailable>> => outcomes[i].kind # "SUCCESS"
    /\ (pc = "done" /\ sandbox_logs = SandboxUnavailable)
          => Last(stream).status # "Resurrected"


\* ---------------------------------------------------------------------
\* Concurrent resurrect requests on the engine singleton
\* (main.py 66-68 and 517, lazarus_agent.py 3011-3016, 2012-2040)
\* ---------------------------------------------------------------------

MaxRequests == 2
MaxConcurrentCalls == 4

\* main.py 66-68: ThreadingHTTPServer serves every request in a thread of its
\* own; main.py 517: each of them runs process_resurrection, which uses the
\* module-level `engine` (lines 3011-3016), so that self.sandbox is shared.
Requests == 1..MaxRequests

InitConcurrent ==
    /\ RunIdle
    /\ BatchIdle
    /\ GenIdle /\ CallIdle /\ ParseIdle /\ EntryIdle /\ DetectIdle
    /\ spc = "unused"
    /\ sandbox = 0
    /\ sessions = <<>>
    /\ exec_calls = 0
    /\ close_attempts = <<>>
    /\ sbx_runtime = "none"
    /\ polls = 0
    /\ sbx_return = {}
    /\ attempt_result = "none"
    /\ e2b_available = TRUE
    /\ health = "none"
    /\ wpc = "unused"
    /\ written_paths = <<>>
    /\ launch_path = <<>>
    /\ tpc = [t \in Requests |-> "idle"]
    /\ own = [t \in Requests |-> 0]

ConcurrentPinned ==
    /\ UNCHANGED <<spc, sbx_runtime, polls, sbx_return, attempt_result,
                   e2b_available, health, wpc, written_paths, launch_path>>
    /\ UNCHANGED <<run_vars, batch_vars, gen_vars, call_vars, parse_vars,
                   entry_vars, detect_vars>>

\* Lines 2757 and 1987-2012: the run of request t enters execute_in_sandbox.
\* Nothing is acquired on entry: the method holds no lock.
RequestCalls(t) ==
    /\ tpc[t] = "idle"
    /\ exec_calls < MaxConcurrentCalls
    /\ exec_calls' = exec_calls + 1
    /\ tpc' = [tpc EXCEPT ![t] = "teardown"]
    /\ own' = [own EXCEPT ![t] = 0]
    /\ UNCHANGED <<sandbox, sessions, close_attempts>>
    /\ ConcurrentPinned

\* Lines 2014-2022: whatever session self.sandbox holds is closed and the
\* handle cleared, whichever run created it.
RequestTeardown(t) ==
    /\ tpc[t] = "teardown"
    /\ IF sandbox # 0
       THEN \E ok \in BOOLEAN :
               /\ close_attempts' = Append(close_attempts, [session |-> sandbox, ok |-> ok])
               /\ sessions' = IF ok THEN [sessions EXCEPT ![sandbox] = "closed"]
                              ELSE sessions
               /\ sandbox' = HandleAfterClose(sandbox, ok)
       ELSE UNCHANGED <<close_attempts, sessions, sandbox>>
    /\ tpc' = [tpc EXCEPT ![t] = "create"]
    /\ UNCHANGED <<exec_calls, own>>
    /\ ConcurrentPinned

\* Lines 2027-2040: self.sandbox = Sandbox.create(...), or both creations
\* fail and the call returns.
RequestCreates(t) ==
    /\ tpc[t] = "create"
    /\ \/ /\ sessions' = Append(sessions, "open")
          /\ sandbox' = Len(sessions) + 1
          /\ own' = [own EXCEPT ![t] = Len(sessions) + 1]
          /\ tpc' = [tpc EXCEPT ![t] = "executing"]
       \/ /\ tpc' = [tpc EXCEPT ![t] = "idle"]
          /\ UNCHANGED <<sessions, sandbox, own>>
    /\ UNCHANGED <<exec_calls, close_attempts>>
    /\ ConcurrentPinned

\* Lines 2042-2640: the files are written and the commands run through
\* self.sandbox, then the call returns.
RequestReturns(t) ==
    /\ tpc[t] = "executing"
    /\ tpc' = [tpc EXCEPT ![t] = "idle"]
    /\ own' = [own EXCEPT ![t] = 0]
    /\ UNCHANGED <<sandbox, sessions, exec_calls, close_attempts>>
    /\ ConcurrentPinned

NextConcurrent ==
    \/ \E t \in Requests : RequestCalls(t)
    \/ \E t \in Requests : RequestTeardown(t)
    \/ \E t \in Requests : RequestCreates(t)
    \/ \E t \in Requests : RequestReturns(t)

SpecConcurrent == InitConcurrent /\ [][NextConcurrent]_vars

\* C40: while the execute_in_sandbox call of a request is executing in the
\* session it created, that session is open and is the engine's current
\* session: no other request has closed or replaced it.
C40_SessionNotDisturbed ==
    \A t \in Requests :
        tpc[t] = "executing" =>
            /\ sandbox = own[t]
            /\ sessions[own[t]] = "open"

====
